---- MODULE Spec2Model ----
(***************************************************************************)
(* Model of the code2prompt MCP server (src/src/code2prompt_mcp/main.py):  *)
(* the three tool coroutines get_context, get_context_for_gemini and       *)
(* ask_gemini_question, the artifact files they write, the environment     *)
(* credential they read, and the external engine / hosted model they call. *)
(*                                                                         *)
(* A Python str is a sequence of one-character strings, so that f-string   *)
(* formatting, `in`, lower(), strip(), split() and join() are computed     *)
(* character by character.  A non-ASCII code point is written as one       *)
(* element such as "U+00E9"; bytes outside ASCII are written "0xC3".       *)
(***************************************************************************)
EXTENDS Integers, Sequences, FiniteSets, TLC

(***************************************************************************)
(* Bounds                                                                  *)
(***************************************************************************)
\* number of tool calls the server receives in one behaviour
NumCalls == 2

Calls == 1..NumCalls

(***************************************************************************)
(* Python string primitives                                                *)
(***************************************************************************)
UpperCase ==
    ("A" :> "a") @@ ("B" :> "b") @@ ("C" :> "c") @@ ("D" :> "d") @@ ("E" :> "e") @@
    ("F" :> "f") @@ ("G" :> "g") @@ ("H" :> "h") @@ ("I" :> "i") @@ ("J" :> "j") @@
    ("K" :> "k") @@ ("L" :> "l") @@ ("M" :> "m") @@ ("N" :> "n") @@ ("O" :> "o") @@
    ("P" :> "p") @@ ("Q" :> "q") @@ ("R" :> "r") @@ ("S" :> "s") @@ ("T" :> "t") @@
    ("U" :> "u") @@ ("V" :> "v") @@ ("W" :> "w") @@ ("X" :> "x") @@ ("Y" :> "y") @@
    ("Z" :> "z") @@ ("U+00C9" :> "U+00E9")

\* str.lower()
lower(s) ==
    [i \in 1..Len(s) |-> IF s[i] \in DOMAIN UpperCase THEN UpperCase[s[i]] ELSE s[i]]

\* `sub in s`
Contains(s, sub) ==
    \E i \in 0..(Len(s) - Len(sub)) : SubSeq(s, i + 1, i + Len(sub)) = sub

\* str.startswith
StartsWith(s, pre) ==
    Len(pre) <= Len(s) /\ SubSeq(s, 1, Len(pre)) = pre

\* str.isspace() of one character
IsSpace(ch) ==
    ch \in {" ", "\t", "\n", "\r", "\f", "U+00A0"}

RECURSIVE lstrip(_)
lstrip(s) ==
    IF s # <<>> /\ IsSpace(Head(s)) THEN lstrip(Tail(s)) ELSE s

RECURSIVE rstrip(_)
rstrip(s) ==
    IF s # <<>> /\ IsSpace(s[Len(s)]) THEN rstrip(SubSeq(s, 1, Len(s) - 1)) ELSE s

\* str.strip()
strip(s) ==
    rstrip(lstrip(s))

\* len(s.split()): the number of maximal runs of non-whitespace characters
split_len(s) ==
    Cardinality({i \in 1..Len(s) :
                    /\ ~IsSpace(s[i])
                    /\ (i = 1 \/ IsSpace(s[i - 1]))})

RECURSIVE join_NoSeparator(_, _)
\* join that drops the separator
join_NoSeparator(sep, items) ==
    IF items = <<>> THEN <<>>
    ELSE items[1] \o join_NoSeparator(sep, Tail(items))

RECURSIVE join(_, _)
\* sep.join(items)
join(sep, items) ==
    IF items = <<>> THEN <<>>
    ELSE IF Len(items) = 1 THEN items[1]
    ELSE items[1] \o sep \o join(sep, Tail(items))

(***************************************************************************)
(* Text files, as written by write_text and read by read_text              *)
(* (encoding="utf-8", newline=None)                                        *)
(***************************************************************************)
\* os.linesep
LineSep == <<"\n">>

RECURSIVE write_newlines(_)
\* text mode on writing: every "\n" becomes os.linesep (the text is bound to its
\* value once, then translated one half after the other)
write_newlines(text) ==
    LET translate(s) ==
            IF s = <<>> THEN <<>>
            ELSE IF Len(s) = 1
            THEN (IF s[1] = "\n" THEN LineSep ELSE s)
            ELSE LET h == Len(s) \div 2
                 IN  write_newlines(SubSeq(s, 1, h))
                        \o write_newlines(SubSeq(s, h + 1, Len(s)))
    IN  CHOOSE r \in {translate(s) : s \in {text}} : TRUE

RECURSIVE universal_newlines(_)
\* text mode on reading: "\r\n" and "\r" become "\n"
universal_newlines(text) ==
    LET translate(s) ==
            IF Len(s) <= 1
            THEN (IF s = <<"\r">> THEN <<"\n">> ELSE s)
            ELSE IF s = <<"\r", "\n">>
            THEN <<"\n">>
            ELSE LET mid == Len(s) \div 2
                     h == IF s[mid] = "\r" /\ s[mid + 1] = "\n"
                          THEN (IF mid > 1 THEN mid - 1 ELSE mid + 1)
                          ELSE mid
                 IN  universal_newlines(SubSeq(s, 1, h))
                        \o universal_newlines(SubSeq(s, h + 1, Len(s)))
    IN  CHOOSE r \in {translate(s) : s \in {text}} : TRUE

Utf8 ==
    ("U+00E9" :> <<"0xC3", "0xA9">>) @@ ("U+00C9" :> <<"0xC3", "0x89">>) @@
    ("U+00A0" :> <<"0xC2", "0xA0">>) @@ ("U+20AC" :> <<"0xE2", "0x82", "0xAC">>)

\* the bytes 0x80..0xBF continue a multi-byte character
IsContinuation(byte) ==
    byte \in {"0x82", "0x89", "0xA0", "0xA9", "0xAC"}

RECURSIVE encode_utf8(_)
\* str.encode("utf-8"), one half of the text after the other
encode_utf8(text) ==
    LET encode(s) ==
            IF s = <<>> THEN <<>>
            ELSE IF Len(s) = 1
            THEN (IF s[1] \in DOMAIN Utf8 THEN Utf8[s[1]] ELSE <<s[1]>>)
            ELSE LET h == Len(s) \div 2
                 IN  encode_utf8(SubSeq(s, 1, h)) \o encode_utf8(SubSeq(s, h + 1, Len(s)))
    IN  CHOOSE r \in {encode(s) : s \in {text}} : TRUE

RECURSIVE decode_utf8(_)
\* bytes.decode("utf-8"), cut at the character boundary nearest to the middle
decode_utf8(bytes) ==
    LET decode(b) ==
            IF b = <<>> THEN <<>>
            ELSE LET Dist(i) == IF 2 * i >= Len(b) THEN 2 * i - Len(b) ELSE Len(b) - 2 * i
                     Nearest(starts) ==
                        CHOOSE i \in starts :
                            \A j \in starts :
                                Dist(i) < Dist(j) \/ (Dist(i) = Dist(j) /\ i <= j)
                     Halves(starts) ==
                        IF starts = {}
                        THEN IF Len(b) = 1 THEN <<b[1]>>
                             ELSE <<CHOOSE ch \in DOMAIN Utf8 : Utf8[ch] = b>>
                        ELSE CHOOSE r \in
                                {decode_utf8(SubSeq(b, 1, cut - 1))
                                    \o decode_utf8(SubSeq(b, cut, Len(b))) :
                                 cut \in {Nearest(starts)}} : TRUE
                 IN  CHOOSE r \in
                        {Halves(starts) :
                         starts \in {{i \in 2..Len(b) : ~IsContinuation(b[i])}}} : TRUE
    IN  CHOOSE r \in {decode(b) : b \in {bytes}} : TRUE

\* the bytes Path.write_text(text, encoding="utf-8") stores
write_text(text) == encode_utf8(write_newlines(text))

\* the text Path.read_text(encoding="utf-8") returns for the bytes of a file
read_text(bytes) == universal_newlines(decode_utf8(bytes))

(***************************************************************************)
(* Literals of main.py                                                     *)
(***************************************************************************)
\* "gemini-2.5-pro"
GeminiPro == <<"g", "e", "m", "i", "n", "i", "-", "2", ".", "5", "-", "p", "r", "o">>
\* "gemini-2.5-flash"
GeminiFlash == <<"g", "e", "m", "i", "n", "i", "-", "2", ".", "5", "-", "f", "l", "a", "s", "h">>

supported_models == <<GeminiPro, GeminiFlash>>

\* f"Unsupported model '{model}'. Supported models: {', '.join(supported_models)}"
UnsupportedModelMsg(model) ==
    <<"U", "n", "s", "u", "p", "p", "o", "r", "t", "e", "d", " ", "m", "o", "d", "e", "l", " ", "'">> \o model \o <<"'", ".", " ", "S", "u", "p", "p", "o", "r", "t", "e", "d", " ", "m", "o", "d", "e", "l", "s", ":", " ">>
        \o join(<<",", " ">>, supported_models)

\* the message of a missing GEMINI_API_KEY
MissingKeyMsg ==
    <<"G", "E", "M", "I", "N", "I", "_", "A", "P", "I", "_", "K", "E", "Y", " ", "e", "n", "v", "i", "r", "o", "n", "m", "e", "n", "t", " ", "v", "a", "r", "i", "a", "b", "l", "e", " ", "i", "s", " ", "r", "e", "q", "u", "i", "r", "e", "d", ".", " ">>
    \o <<"P", "l", "e", "a", "s", "e", " ", "s", "e", "t", " ", "i", "t", " ", "i", "n", " ", "y", "o", "u", "r", " ", "e", "n", "v", "i", "r", "o", "n", "m", "e", "n", "t", " ", "o", "r", " ", "c", "r", "e", "a", "t", "e", " ", "a", " ", ".", "e", "n", "v", " ", "f", "i", "l", "e", " ", "w", "i", "t", "h", ":", " ">>
    \o <<"G", "E", "M", "I", "N", "I", "_", "A", "P", "I", "_", "K", "E", "Y", "=", "y", "o", "u", "r", "_", "a", "p", "i", "_", "k", "e", "y", "_", "h", "e", "r", "e">>

\* f"Failed to generate codebase context: {str(e)}"
GenerateFailedMsg(e) == <<"F", "a", "i", "l", "e", "d", " ", "t", "o", " ", "g", "e", "n", "e", "r", "a", "t", "e", " ", "c", "o", "d", "e", "b", "a", "s", "e", " ", "c", "o", "n", "t", "e", "x", "t", ":", " ">> \o e

\* f"Context extraction failed: {str(e)}"
ExtractionFailedMsg(e) == <<"C", "o", "n", "t", "e", "x", "t", " ", "e", "x", "t", "r", "a", "c", "t", "i", "o", "n", " ", "f", "a", "i", "l", "e", "d", ":", " ">> \o e

\* f"Context file not found at: {context_file_path}"
FileNotFoundMsg(path) == <<"C", "o", "n", "t", "e", "x", "t", " ", "f", "i", "l", "e", " ", "n", "o", "t", " ", "f", "o", "u", "n", "d", " ", "a", "t", ":", " ">> \o path

\* the read failure message without str(e)
ReadFailedMsg_NoDetail(e) == <<"F", "a", "i", "l", "e", "d", " ", "t", "o", " ", "r", "e", "a", "d", " ", "c", "o", "n", "t", "e", "x", "t", " ", "f", "i", "l", "e">>

\* f"Failed to read context file: {str(e)}"
ReadFailedMsg(e) == <<"F", "a", "i", "l", "e", "d", " ", "t", "o", " ", "r", "e", "a", "d", " ", "c", "o", "n", "t", "e", "x", "t", " ", "f", "i", "l", "e", ":", " ">> \o e

\* the notice written in place of an empty context
EmptyContextNotice ==
    <<"#", " ", "N", "o", " ", "c", "o", "n", "t", "e", "x", "t", " ", "g", "e", "n", "e", "r", "a", "t", "e", "d", "\n", "\n", "N", "o", " ", "f", "i", "l", "e", "s", " ", "w", "e", "r", "e", " ", "f", "o", "u", "n", "d", " ", "o", "r", " ", "a", "l", "l", " ", "f", "i", "l", "e", "s", " ", "w", "e", "r", "e", " ", "e", "x", "c", "l", "u", "d", "e", "d", " ", "b", "y", " ", "t", "h", "e", " ", "s", "p", "e", "c", "i", "f", "i", "e", "d", " ", "p", "a", "t", "t", "e", "r", "n", "s", ".", "\n">>

AuthFailedMsg ==
    <<"A", "u", "t", "h", "e", "n", "t", "i", "c", "a", "t", "i", "o", "n", " ", "f", "a", "i", "l", "e", "d", ":", " ", "I", "n", "v", "a", "l", "i", "d", " ", "o", "r", " ", "e", "x", "p", "i", "r", "e", "d", " ", "A", "P", "I", " ", "k", "e", "y", ".", " ", "P", "l", "e", "a", "s", "e", " ", "c", "h", "e", "c", "k", " ", "y", "o", "u", "r", " ", "G", "E", "M", "I", "N", "I", "_", "A", "P", "I", "_", "K", "E", "Y", ".">>
RateLimitMsg ==
    <<"R", "a", "t", "e", " ", "l", "i", "m", "i", "t", " ", "e", "x", "c", "e", "e", "d", "e", "d", ".", " ", "P", "l", "e", "a", "s", "e", " ", "w", "a", "i", "t", " ", "b", "e", "f", "o", "r", "e", " ", "m", "a", "k", "i", "n", "g", " ", "a", "n", "o", "t", "h", "e", "r", " ", "r", "e", "q", "u", "e", "s", "t", ".">>
ContentBlockedMsg ==
    <<"C", "o", "n", "t", "e", "n", "t", " ", "b", "l", "o", "c", "k", "e", "d", " ", "b", "y", " ", "s", "a", "f", "e", "t", "y", " ", "f", "i", "l", "t", "e", "r", "s", ".", " ", "P", "l", "e", "a", "s", "e", " ", "r", "e", "p", "h", "r", "a", "s", "e", " ", "y", "o", "u", "r", " ", "q", "u", "e", "s", "t", "i", "o", "n", ".">>
ModelUnavailableMsg ==
    <<"G", "e", "m", "i", "n", "i", " ", "m", "o", "d", "e", "l", " ", "t", "e", "m", "p", "o", "r", "a", "r", "i", "l", "y", " ", "u", "n", "a", "v", "a", "i", "l", "a", "b", "l", "e", ".", " ", "P", "l", "e", "a", "s", "e", " ", "t", "r", "y", " ", "a", "g", "a", "i", "n", " ", "l", "a", "t", "e", "r", ".">>
NetworkTimeoutMsg ==
    <<"N", "e", "t", "w", "o", "r", "k", " ", "t", "i", "m", "e", "o", "u", "t", ".", " ", "P", "l", "e", "a", "s", "e", " ", "c", "h", "e", "c", "k", " ", "y", "o", "u", "r", " ", "c", "o", "n", "n", "e", "c", "t", "i", "o", "n", " ", "a", "n", "d", " ", "t", "r", "y", " ", "a", "g", "a", "i", "n", ".">>
\* f"AI service error: {str(e)}"
ServiceErrorMsg(e) == <<"A", "I", " ", "s", "e", "r", "v", "i", "c", "e", " ", "e", "r", "r", "o", "r", ":", " ">> \o e

\* the except clause of step 5 with the first two tests in the other order
HostedModelFailure_QuotaFirst(e) ==
    IF Contains(lower(e), <<"r", "a", "t", "e", " ", "l", "i", "m", "i", "t">>) \/ Contains(lower(e), <<"q", "u", "o", "t", "a">>)
    THEN RateLimitMsg
    ELSE IF Contains(lower(e), <<"a", "u", "t", "h", "e", "n", "t", "i", "c", "a", "t", "i", "o", "n">>) \/ Contains(lower(e), <<"a", "p", "i", " ", "k", "e", "y">>)
    THEN AuthFailedMsg
    ELSE IF Contains(lower(e), <<"s", "a", "f", "e", "t", "y">>) \/ Contains(lower(e), <<"b", "l", "o", "c", "k", "e", "d">>)
    THEN ContentBlockedMsg
    ELSE IF Contains(lower(e), <<"m", "o", "d", "e", "l">>) /\ Contains(lower(e), <<"u", "n", "a", "v", "a", "i", "l", "a", "b", "l", "e">>)
    THEN ModelUnavailableMsg
    ELSE IF Contains(lower(e), <<"t", "i", "m", "e", "o", "u", "t">>) \/ Contains(lower(e), <<"n", "e", "t", "w", "o", "r", "k">>)
    THEN NetworkTimeoutMsg
    ELSE ServiceErrorMsg(e)

\* the except clause of step 5 with str(e) appended to the authentication message
HostedModelFailure_EchoAuth(e) ==
    IF Contains(lower(e), <<"a", "u", "t", "h", "e", "n", "t", "i", "c", "a", "t", "i", "o", "n">>) \/ Contains(lower(e), <<"a", "p", "i", " ", "k", "e", "y">>)
    THEN AuthFailedMsg \o <<" ">> \o e
    ELSE IF Contains(lower(e), <<"r", "a", "t", "e", " ", "l", "i", "m", "i", "t">>) \/ Contains(lower(e), <<"q", "u", "o", "t", "a">>)
    THEN RateLimitMsg
    ELSE IF Contains(lower(e), <<"s", "a", "f", "e", "t", "y">>) \/ Contains(lower(e), <<"b", "l", "o", "c", "k", "e", "d">>)
    THEN ContentBlockedMsg
    ELSE IF Contains(lower(e), <<"m", "o", "d", "e", "l">>) /\ Contains(lower(e), <<"u", "n", "a", "v", "a", "i", "l", "a", "b", "l", "e">>)
    THEN ModelUnavailableMsg
    ELSE IF Contains(lower(e), <<"t", "i", "m", "e", "o", "u", "t">>) \/ Contains(lower(e), <<"n", "e", "t", "w", "o", "r", "k">>)
    THEN NetworkTimeoutMsg
    ELSE ServiceErrorMsg(e)

\* the except clause of step 5 with str(e) appended to the rate-limit message
HostedModelFailure_EchoRateLimit(e) ==
    IF Contains(lower(e), <<"a", "u", "t", "h", "e", "n", "t", "i", "c", "a", "t", "i", "o", "n">>) \/ Contains(lower(e), <<"a", "p", "i", " ", "k", "e", "y">>)
    THEN AuthFailedMsg
    ELSE IF Contains(lower(e), <<"r", "a", "t", "e", " ", "l", "i", "m", "i", "t">>) \/ Contains(lower(e), <<"q", "u", "o", "t", "a">>)
    THEN RateLimitMsg \o <<" ">> \o e
    ELSE IF Contains(lower(e), <<"s", "a", "f", "e", "t", "y">>) \/ Contains(lower(e), <<"b", "l", "o", "c", "k", "e", "d">>)
    THEN ContentBlockedMsg
    ELSE IF Contains(lower(e), <<"m", "o", "d", "e", "l">>) /\ Contains(lower(e), <<"u", "n", "a", "v", "a", "i", "l", "a", "b", "l", "e">>)
    THEN ModelUnavailableMsg
    ELSE IF Contains(lower(e), <<"t", "i", "m", "e", "o", "u", "t">>) \/ Contains(lower(e), <<"n", "e", "t", "w", "o", "r", "k">>)
    THEN NetworkTimeoutMsg
    ELSE ServiceErrorMsg(e)

\* the except clause of step 5 with `or` in the model-unavailable test
HostedModelFailure_ModelOrUnavailable(e) ==
    IF Contains(lower(e), <<"a", "u", "t", "h", "e", "n", "t", "i", "c", "a", "t", "i", "o", "n">>) \/ Contains(lower(e), <<"a", "p", "i", " ", "k", "e", "y">>)
    THEN AuthFailedMsg
    ELSE IF Contains(lower(e), <<"r", "a", "t", "e", " ", "l", "i", "m", "i", "t">>) \/ Contains(lower(e), <<"q", "u", "o", "t", "a">>)
    THEN RateLimitMsg
    ELSE IF Contains(lower(e), <<"s", "a", "f", "e", "t", "y">>) \/ Contains(lower(e), <<"b", "l", "o", "c", "k", "e", "d">>)
    THEN ContentBlockedMsg
    ELSE IF Contains(lower(e), <<"m", "o", "d", "e", "l">>) \/ Contains(lower(e), <<"u", "n", "a", "v", "a", "i", "l", "a", "b", "l", "e">>)
    THEN ModelUnavailableMsg
    ELSE IF Contains(lower(e), <<"t", "i", "m", "e", "o", "u", "t">>) \/ Contains(lower(e), <<"n", "e", "t", "w", "o", "r", "k">>)
    THEN NetworkTimeoutMsg
    ELSE ServiceErrorMsg(e)

\* the except clause of step 5: the message raised for the upstream message e
HostedModelFailure(e) ==
    IF Contains(lower(e), <<"a", "u", "t", "h", "e", "n", "t", "i", "c", "a", "t", "i", "o", "n">>) \/ Contains(lower(e), <<"a", "p", "i", " ", "k", "e", "y">>)
    THEN AuthFailedMsg
    ELSE IF Contains(lower(e), <<"r", "a", "t", "e", " ", "l", "i", "m", "i", "t">>) \/ Contains(lower(e), <<"q", "u", "o", "t", "a">>)
    THEN RateLimitMsg
    ELSE IF Contains(lower(e), <<"s", "a", "f", "e", "t", "y">>) \/ Contains(lower(e), <<"b", "l", "o", "c", "k", "e", "d">>)
    THEN ContentBlockedMsg
    ELSE IF Contains(lower(e), <<"m", "o", "d", "e", "l">>) /\ Contains(lower(e), <<"u", "n", "a", "v", "a", "i", "l", "a", "b", "l", "e">>)
    THEN ModelUnavailableMsg
    ELSE IF Contains(lower(e), <<"t", "i", "m", "e", "o", "u", "t">>) \/ Contains(lower(e), <<"n", "e", "t", "w", "o", "r", "k">>)
    THEN NetworkTimeoutMsg
    ELSE ServiceErrorMsg(e)

\* the prompt with the blank line left out when there is no context
FullPrompt_SkipEmpty(context_content, question) ==
    IF context_content = <<>>
    THEN <<"Q", "u", "e", "s", "t", "i", "o", "n", ":", " ">> \o question
    ELSE context_content \o <<"\n", "\n", "Q", "u", "e", "s", "t", "i", "o", "n", ":", " ">> \o question

\* f"{context_content}\n\nQuestion: {question}"
FullPrompt(context_content, question) ==
    context_content \o <<"\n", "\n", "Q", "u", "e", "s", "t", "i", "o", "n", ":", " ">> \o question

\* temperature=0.1, written in tenths
TemperatureTenths == 1
MaxOutputTokens == 30000
\* errno.ENOSPC
ENOSPC == 28

(***************************************************************************)
(* Paths                                                                   *)
(***************************************************************************)
\* tempfile.gettempdir()
TempDir == <<"/", "t", "m", "p">>
\* Path(tempfile.gettempdir()) / "Claude Code Gemini Context"
temp_dir == TempDir \o <<"/">> \o <<"C", "l", "a", "u", "d", "e", " ", "C", "o", "d", "e", " ", "G", "e", "m", "i", "n", "i", " ", "C", "o", "n", "t", "e", "x", "t">>

HexDigits == <<"0", "1", "2", "3", "4", "5", "6", "7", "8", "9", "a", "b", "c", "d", "e", "f">>
\* uuid.uuid4().hex of the n-th identifier drawn
UuidHex(n) == <<HexDigits[(n % 16) + 1]>>

\* one fixed file name for every call
OutputFile_Fixed(n) == temp_dir \o <<"/">> \o <<"l", "a", "t", "e", "s", "t", "_", "c", "o", "n", "t", "e", "x", "t", ".", "t", "x", "t">>

\* f"context_{uuid.uuid4().hex}.txt" under temp_dir
OutputFile(n) == temp_dir \o <<"/">> \o <<"c", "o", "n", "t", "e", "x", "t", "_">> \o UuidHex(n) \o <<".", "t", "x", "t">>

\* Path.is_absolute()
IsAbsolute(path) == StartsWith(path, <<"/">>)

\* os.getcwd()
Cwd == <<"/", "s", "r", "v">>

\* the path as written relative to the system temp directory
absolute_RelativeToTemp(path) == SubSeq(path, Len(TempDir) + 2, Len(path))

\* Path.absolute(): an absolute path is kept, any other is anchored at the cwd
absolute(path) == IF IsAbsolute(path) THEN path ELSE Cwd \o <<"/">> \o path


(***************************************************************************)
(* Values the callers and the external collaborators can supply            *)
(***************************************************************************)
\* a value that may be None
None == [some |-> FALSE, val |-> <<>>]
Some(v) == [some |-> TRUE, val |-> v]

\* the twelve scan parameters with their defaults (main.py, lines 31-42)
DefaultScan ==
    [path |-> <<".">>, include_patterns |-> <<>>, exclude_patterns |-> <<>>,
     include_priority |-> FALSE, line_numbers |-> TRUE, absolute_paths |-> FALSE,
     full_directory_tree |-> FALSE, code_blocks |-> TRUE, follow_symlinks |-> FALSE,
     include_hidden |-> FALSE, template |-> None, encoding |-> Some(<<"c", "l", "1", "0", "0", "k">>)]

\* the parameters of test_forwards_all_parameters / test_parameter_forwarding
CustomScan ==
    [path |-> <<"/", "p">>, include_patterns |-> <<<<"*", ".", "p", "y">>, <<"*", ".", "m", "d">>>>,
     exclude_patterns |-> <<<<"*", ".", "l", "o", "g">>>>,
     include_priority |-> TRUE, line_numbers |-> FALSE, absolute_paths |-> TRUE,
     full_directory_tree |-> TRUE, code_blocks |-> FALSE, follow_symlinks |-> TRUE,
     include_hidden |-> TRUE, template |-> Some(<<"t">>), encoding |-> Some(<<"g", "p", "t", "2">>)]

OpNames == {"get_context", "get_context_for_gemini", "ask_gemini_question"}

\* the tool calls a client may issue
Invocations ==
    {[op |-> "get_context", question |-> <<>>, model |-> GeminiPro, scan |-> s] :
        s \in {DefaultScan, CustomScan}}
    \cup
    {[op |-> "get_context_for_gemini", question |-> <<>>, model |-> GeminiPro, scan |-> s] :
        s \in {DefaultScan, CustomScan}}
    \cup
    {[op |-> "ask_gemini_question", question |-> <<"w", "h", "y", "?">>, model |-> GeminiPro,
      scan |-> DefaultScan],
     [op |-> "ask_gemini_question", question |-> <<>>, model |-> GeminiFlash,
      scan |-> CustomScan],
     [op |-> "ask_gemini_question", question |-> <<"w", "h", "y", "?">>, model |-> <<"n", "o", "t", "-", "a", "-", "m", "o", "d", "e", "l">>,
      scan |-> DefaultScan],
     [op |-> "ask_gemini_question", question |-> <<"w", "h", "y", "?">>, model |-> <<"G", "e", "m", "i", "n", "i", "-", "2", ".", "5", "-", "P", "r", "o">>,
      scan |-> CustomScan],
     [op |-> "ask_gemini_question", question |-> <<>>, model |-> <<"g", "e", "m", "i", "n", "i", "-", "2", ".", "5">>,
      scan |-> DefaultScan],
     [op |-> "ask_gemini_question", question |-> <<"w", "h", "y", "?">>, model |-> <<>>,
      scan |-> DefaultScan]}

\* the values GEMINI_API_KEY can have in the environment
KeyValues == {None, Some(<<>>), Some(<<"k", "1">>), Some(<<"k", "2">>)}

\* results of the external engine (Code2Prompt(...).generate(...))
EngineResults ==
    {[prompt |-> <<" ", "h", "U+00E9", "U+20AC", " ", "b", "\n">>, directory |-> <<"/", "p">>,
      token_count |-> 2],
     [prompt |-> <<"a", "\r", "\n", "b">>, directory |-> <<"/", "p">>, token_count |-> 2],
     [prompt |-> <<>>, directory |-> <<"/", "p">>, token_count |-> 0],
     [prompt |-> <<" ", "\n", "\t">>, directory |-> <<"/", "p">>, token_count |-> 0]}

\* messages of exceptions raised by the external engine
EngineErrors == {<<"I", "n", "v", "a", "l", "i", "d", " ", "c", "o", "d", "e", "b", "a", "s", "e", " ", "p", "a", "t", "h">>, <<"a", "p", "i", " ", "k", "e", "y", " ", "q", "u", "o", "t", "a", " ", "t", "i", "m", "e", "o", "u", "t">>}

\* exceptions raised by Path.mkdir
MkdirErrors == {[type |-> "PermissionError", errno |-> 13, msg |-> <<"[", "E", "r", "r", "n", "o", " ", "1", "3", "]", " ", "m", "k", "d", "i", "r">>]}

\* exceptions raised by Path.write_text
WriteErrors ==
    {[type |-> "PermissionError", errno |-> 13, msg |-> <<"P", "e", "r", "m", "i", "s", "s", "i", "o", "n", " ", "d", "e", "n", "i", "e", "d">>],
     [type |-> "PermissionError", errno |-> 28, msg |-> <<"E", "P", "E", "R", "M", " ", "2", "8">>],
     [type |-> "OSError", errno |-> 28, msg |-> <<"N", "o", " ", "s", "p", "a", "c", "e", " ", "l", "e", "f", "t", " ", "o", "n", " ", "d", "e", "v", "i", "c", "e">>],
     [type |-> "OSError", errno |-> 5, msg |-> <<"G", "e", "n", "e", "r", "i", "c", " ", "O", "S", " ", "e", "r", "r", "o", "r">>],
     [type |-> "FileNotFoundError", errno |-> 2, msg |-> <<"[", "E", "r", "r", "n", "o", " ", "2", "]", " ", "N", "o", " ", "s", "u", "c", "h", " ", "f", "i", "l", "e">>],
     [type |-> "UnicodeEncodeError", errno |-> 0, msg |-> <<"U", "n", "e", "x", "p", "e", "c", "t", "e", "d", " ", "e", "r", "r", "o", "r">>]}

\* messages of exceptions raised by Path.read_text on an existing file
ReadErrors == {<<"P", "e", "r", "m", "i", "s", "s", "i", "o", "n", " ", "d", "e", "n", "i", "e", "d">>, <<"n", "e", "t", "w", "o", "r", "k", " ", "t", "i", "m", "e", "o", "u", "t">>}

\* the message of FileNotFoundError
NoSuchFileMsg(path) == <<"[", "E", "r", "r", "n", "o", " ", "2", "]", " ", "N", "o", " ", "s", "u", "c", "h", " ", "f", "i", "l", "e", " ", "o", "r", " ", "d", "i", "r", "e", "c", "t", "o", "r", "y", ":", " ", "'">> \o path \o <<"'">>

\* messages of exceptions raised by genai.Client(api_key=...)
ClientErrors == {<<"b", "a", "d", " ", "c", "l", "i", "e", "n", "t">>}

\* messages of exceptions raised by client.models.generate_content
UpstreamErrors ==
    {<<"A", "u", "t", "h", "e", "n", "t", "i", "c", "a", "t", "i", "o", "n", " ", "f", "a", "i", "l", "e", "d", ":", " ", "I", "n", "v", "a", "l", "i", "d", " ", "A", "P", "I", " ", "k", "e", "y">>,
     <<"R", "a", "t", "e", " ", "l", "i", "m", "i", "t", " ", "e", "x", "c", "e", "e", "d", "e", "d">>,
     <<"C", "o", "n", "t", "e", "n", "t", " ", "b", "l", "o", "c", "k", "e", "d", " ", "b", "y", " ", "s", "a", "f", "e", "t", "y", " ", "f", "i", "l", "t", "e", "r", "s">>,
     <<"M", "o", "d", "e", "l", " ", "t", "e", "m", "p", "o", "r", "a", "r", "i", "l", "y", " ", "u", "n", "a", "v", "a", "i", "l", "a", "b", "l", "e">>,
     <<"N", "e", "t", "w", "o", "r", "k", " ", "t", "i", "m", "e", "o", "u", "t", " ", "o", "c", "c", "u", "r", "r", "e", "d">>,
     <<"U", "n", "k", "n", "o", "w", "n", " ", "A", "P", "I", " ", "e", "r", "r", "o", "r">>,
     <<"R", "A", "T", "E", " ", "L", "I", "M", "I", "T", " ", "h", "i", "t", " ", "f", "o", "r", " ", "k", "e", "y", " ", "s", "k", "-", "9">>,
     <<"Q", "u", "o", "t", "a", " ", "e", "x", "c", "e", "e", "d", "e", "d", " ", "f", "o", "r", " ", "A", "P", "I", " ", "k", "e", "y", " ", "A", "I", "z", "a", "9">>,
     <<"m", "o", "d", "e", "l", " ", "b", "l", "o", "c", "k", "e", "d", ":", " ", "n", "e", "t", "w", "o", "r", "k", " ", "u", "n", "a", "v", "a", "i", "l", "a", "b", "l", "e">>,
     <<"M", "o", "d", "e", "l", " ", "o", "v", "e", "r", "l", "o", "a", "d", "e", "d">>,
     <<"S", "e", "r", "v", "i", "c", "e", " ", "u", "n", "a", "v", "a", "i", "l", "a", "b", "l", "e">>,
     <<"m", "o", "d", "e", "l", " ", "u", "n", "a", "v", "a", "i", "l", "a", "b", "l", "e", ",", " ", "t", "i", "m", "e", "o", "u", "t">>,
     <<"4", "2", "9", " ", "q", "u", "o", "t", "a">>,
     <<"S", "A", "F", "E", "T", "Y">>,
     <<"N", "E", "T", "W", "O", "R", "K", " ", "d", "o", "w", "n">>,
     <<>>}

\* responses of client.models.generate_content
Responses ==
    {[has_text |-> TRUE, text |-> <<"I", "t", " ", "a", "d", "d", "s", ".">>, str |-> <<"<", "r", "1", ">">>],
     [has_text |-> FALSE, text |-> <<>>, str |-> <<"<", "r", "2", ">">>]}


(***************************************************************************)
(* State                                                                   *)
(***************************************************************************)
VARIABLES
    pc,          \* pc[c]: the statement call c is about to execute
    op,          \* op[c]: the tool that call c invoked
    args,        \* args[c]: the arguments of call c
    frame,       \* frame[c]: the local variables of the coroutines of call c
    outcome,     \* outcome[c]: what call c returned or raised
    events,      \* events[c]: the calls that call c has made, in order
    environ,     \* os.environ["GEMINI_API_KEY"]
    fs,          \* the files on disk: path -> bytes
    dirs,        \* the directories on disk
    uuids,       \* the number of uuid4 values drawn so far
    server,      \* server[c]: the server process that serves call c
    written,     \* history: path -> the text a successful write_text stored there
    lastFailure, \* history, kept by SpecHistory: the last hosted-model failure delivered
    lastKey,     \* history, kept by SpecRotation: the credential the last call read
    lastCall     \* history, kept by SpecReplay: the last call delivered

vars ==
    <<pc, op, args, frame, outcome, events, environ, fs, dirs, uuids, server,
      written, lastFailure, lastKey, lastCall>>

NoInvocation ==
    [op |-> "none", question |-> <<>>, model |-> <<>>, scan |-> DefaultScan]

NoResult == [prompt |-> <<>>, directory |-> <<>>, token_count |-> 0]

NoRequest ==
    [model |-> <<>>, contents |-> <<>>, api_key |-> None, temperature |-> 0,
     max_output_tokens |-> 0]

NoResponse == [has_text |-> FALSE, text |-> <<>>, str |-> <<>>]

NoException == [type |-> "none", errno |-> 0, msg |-> <<>>]

EmptyFrame ==
    [api_key |-> None,              \* ask_gemini_question
     context_file_path |-> <<>>,
     context_content |-> <<>>,
     full_prompt |-> <<>>,
     request |-> NoRequest,         \* what generate_content was called with
     response |-> NoResponse,       \* what generate_content returned
     upstream |-> None,             \* str(e) of the exception caught in step 5
     extract_error |-> None,        \* str(e) of the exception caught in step 3
     gcfg_scan |-> DefaultScan,     \* parameters of get_context_for_gemini
     context_result |-> NoResult,
     output_file |-> <<>>,
     content |-> <<>>,
     engine_error |-> None,         \* str(e) of the exception the engine raised
     mkdir_error |-> None,          \* str(e) of the exception mkdir raised
     read_error |-> None,           \* str(e) of the exception caught in step 4
     write_error |-> NoException,   \* the exception caught around write_text
     gc_scan |-> DefaultScan,       \* parameters of get_context
     engine_scan |-> DefaultScan]   \* what Code2Prompt / generate were called with

NoOutcome == [kind |-> "none", msg |-> <<>>, value |-> <<>>]

NoFailure == [upstream |-> None, surfaced |-> <<>>]

NoKeyRead == [read |-> FALSE, value |-> None]

NoCall == [made |-> FALSE]

\* the state when the servers have started; servers[c] serves call c
Boot(servers) ==
    /\ server = servers
    /\ pc = [c \in Calls |-> "idle"]
    /\ op = [c \in Calls |-> "none"]
    /\ args = [c \in Calls |-> NoInvocation]
    /\ frame = [c \in Calls |-> EmptyFrame]
    /\ outcome = [c \in Calls |-> NoOutcome]
    /\ events = [c \in Calls |-> <<>>]
    /\ environ \in KeyValues
    /\ fs = <<>>
    /\ dirs = {TempDir}
    /\ uuids = 0
    /\ written = <<>>
    /\ lastFailure = NoFailure
    /\ lastKey = NoKeyRead
    /\ lastCall = NoCall

\* one server process serves every call
Init == Boot([c \in Calls |-> 1])

(***************************************************************************)
(* Helpers of the actions                                                  *)
(***************************************************************************)
\* `x in items` for a list
InList(x, items) == \E i \in 1..Len(items) : items[i] = x

\* the coroutines never await anything that suspends: a call that has started
\* runs to its end before the event loop of its server process starts or
\* resumes another one
Active(c) == pc[c] \notin {"idle", "done"}
MayRun(c) == \A d \in Calls \ {c} : server[d] = server[c] => ~Active(d)

\* the forwarding with template and encoding left at their defaults
ForwardScan_DropTemplate(p) ==
    [path |-> p.path, include_patterns |-> p.include_patterns,
     exclude_patterns |-> p.exclude_patterns, include_priority |-> p.include_priority,
     line_numbers |-> p.line_numbers, absolute_paths |-> p.absolute_paths,
     full_directory_tree |-> p.full_directory_tree, code_blocks |-> p.code_blocks,
     follow_symlinks |-> p.follow_symlinks, include_hidden |-> p.include_hidden,
     template |-> None, encoding |-> Some(<<"c", "l", "1", "0", "0", "k">>)]

\* keyword arguments path=path, include_patterns=include_patterns, ...
ForwardScan(p) ==
    [path |-> p.path, include_patterns |-> p.include_patterns,
     exclude_patterns |-> p.exclude_patterns, include_priority |-> p.include_priority,
     line_numbers |-> p.line_numbers, absolute_paths |-> p.absolute_paths,
     full_directory_tree |-> p.full_directory_tree, code_blocks |-> p.code_blocks,
     follow_symlinks |-> p.follow_symlinks, include_hidden |-> p.include_hidden,
     template |-> p.template, encoding |-> p.encoding]

\* the function in which call c starts
EntryPc(o) ==
    CASE o = "ask_gemini_question" -> "ask_validate_model"
      [] o = "get_context_for_gemini" -> "gcfg_get_context"
      [] o = "get_context" -> "gc_generate"

\* get_context_for_gemini's failure passed on without the except clause of step 3
RaisedByGcfg_Unwrapped(o, e) == e

\* the except clause of step 3 classifying the failure as step 5 does
RaisedByGcfg_Classified(o, e) ==
    IF o = "ask_gemini_question" THEN HostedModelFailure(e) ELSE e

\* what reaches the caller when get_context_for_gemini raises e
RaisedByGcfg(o, e) ==
    IF o = "ask_gemini_question" THEN ExtractionFailedMsg(e) ELSE e

\* get_context's failure passed on without the except clause of step 1
RaisedByGetContext_Unwrapped(o, e) == RaisedByGcfg(o, e)

\* what reaches the caller when get_context raises e
RaisedByGetContext(o, e) ==
    IF o = "get_context" THEN e ELSE RaisedByGcfg(o, GenerateFailedMsg(e))

\* the text get_context_for_gemini writes for a prompt
ArtifactContent(prompt) ==
    IF prompt = <<>> \/ strip(prompt) = <<>> THEN EmptyContextNotice ELSE prompt

\* isinstance(ex, OSError): OSError and the subclasses of it that occur here
IsOSError(ex) == ex.type \in {"OSError", "PermissionError", "FileNotFoundError"}

\* the except clauses around write_text with `except OSError` tried first
WriteFailure_OSErrorFirst(output_file, ex) ==
    IF IsOSError(ex)
    THEN IF ex.errno = ENOSPC
         THEN <<"I", "n", "s", "u", "f", "f", "i", "c", "i", "e", "n", "t", " ", "d", "i", "s", "k", " ", "s", "p", "a", "c", "e", " ", "t", "o", " ", "w", "r", "i", "t", "e", " ", "c", "o", "n", "t", "e", "x", "t", " ", "f", "i", "l", "e", " ", "t", "o", " ">> \o output_file
         ELSE <<"F", "a", "i", "l", "e", "d", " ", "t", "o", " ", "w", "r", "i", "t", "e", " ", "c", "o", "n", "t", "e", "x", "t", " ", "f", "i", "l", "e", " ", "t", "o", " ">> \o output_file \o <<":", " ">> \o ex.msg
    ELSE <<"U", "n", "e", "x", "p", "e", "c", "t", "e", "d", " ", "e", "r", "r", "o", "r", " ", "w", "r", "i", "t", "i", "n", "g", " ", "c", "o", "n", "t", "e", "x", "t", " ", "f", "i", "l", "e", " ", "t", "o", " ">> \o output_file \o <<":", " ">> \o ex.msg

\* the except clauses around write_text
WriteFailure(output_file, ex) ==
    IF ex.type = "PermissionError"
    THEN <<"P", "e", "r", "m", "i", "s", "s", "i", "o", "n", " ", "d", "e", "n", "i", "e", "d", " ", "w", "h", "e", "n", " ", "w", "r", "i", "t", "i", "n", "g", " ", "t", "o", " ">> \o output_file \o <<":", " ">> \o ex.msg
    ELSE IF IsOSError(ex)
    THEN IF ex.errno = ENOSPC
         THEN <<"I", "n", "s", "u", "f", "f", "i", "c", "i", "e", "n", "t", " ", "d", "i", "s", "k", " ", "s", "p", "a", "c", "e", " ", "t", "o", " ", "w", "r", "i", "t", "e", " ", "c", "o", "n", "t", "e", "x", "t", " ", "f", "i", "l", "e", " ", "t", "o", " ">> \o output_file
         ELSE <<"F", "a", "i", "l", "e", "d", " ", "t", "o", " ", "w", "r", "i", "t", "e", " ", "c", "o", "n", "t", "e", "x", "t", " ", "f", "i", "l", "e", " ", "t", "o", " ">> \o output_file \o <<":", " ">> \o ex.msg
    ELSE <<"U", "n", "e", "x", "p", "e", "c", "t", "e", "d", " ", "e", "r", "r", "o", "r", " ", "w", "r", "i", "t", "i", "n", "g", " ", "c", "o", "n", "t", "e", "x", "t", " ", "f", "i", "l", "e", " ", "t", "o", " ">> \o output_file \o <<":", " ">> \o ex.msg

\* the answer taken from str(response) in every case
Answer_AlwaysStr(response) == response.str

\* response.text if hasattr(response, 'text') else str(response)
Answer(response) ==
    IF response.has_text THEN response.text ELSE response.str

\* the frame of ask_gemini_question once the except clause of step 3 caught e
CaughtInStep3(f, o, e) ==
    IF o = "ask_gemini_question" THEN [f EXCEPT !.extract_error = Some(e)] ELSE f

\* a failing step that is tried again in place of raising
Raise_Retry(c, message) == UNCHANGED <<pc, outcome>>

Raise(c, message) ==
    /\ pc' = [pc EXCEPT ![c] = "raised"]
    /\ outcome' = [outcome EXCEPT ![c] = [kind |-> "raise", msg |-> message, value |-> <<>>]]

Return(c, v) ==
    /\ pc' = [pc EXCEPT ![c] = "returned"]
    /\ outcome' = [outcome EXCEPT ![c] = [kind |-> "return", msg |-> <<>>, value |-> v]]

Goto(c, label) ==
    /\ pc' = [pc EXCEPT ![c] = label]
    /\ UNCHANGED outcome

Log(c, names) == events' = [events EXCEPT ![c] = @ \o names]

WriteFile(path, bytes) ==
    [p \in DOMAIN fs \cup {path} |-> IF p = path THEN bytes ELSE fs[p]]


(***************************************************************************)
(* The tool calls                                                          *)
(***************************************************************************)
\* the server dispatches a tool call; calls are numbered in order of arrival
Start(c) ==
    /\ pc[c] = "idle"
    /\ MayRun(c)
    /\ \A d \in Calls : d < c => pc[d] # "idle"
    /\ \E inv \in Invocations :
        /\ op' = [op EXCEPT ![c] = inv.op]
        /\ args' = [args EXCEPT ![c] = inv]
        /\ pc' = [pc EXCEPT ![c] = EntryPc(inv.op)]
        /\ frame' = [frame EXCEPT ![c] =
                        IF inv.op = "get_context_for_gemini"
                        THEN [EmptyFrame EXCEPT !.gcfg_scan = inv.scan]
                        ELSE IF inv.op = "get_context"
                        THEN [EmptyFrame EXCEPT !.gc_scan = inv.scan]
                        ELSE EmptyFrame]
    /\ UNCHANGED <<outcome, events, environ, fs, dirs, uuids, written, lastFailure>>
    /\ UNCHANGED <<server, lastKey, lastCall>>

\* step 1 without the rejection
AskValidateModel_NoReject(c) ==
    /\ pc[c] = "ask_validate_model"
    /\ MayRun(c)
    /\ Log(c, <<"validate_model">>)
    /\ Goto(c, "ask_validate_api_key")
    /\ UNCHANGED <<op, args, frame, environ, fs, dirs, uuids, written, lastFailure>>
    /\ UNCHANGED <<server, lastKey, lastCall>>

\* ask_gemini_question, step 1: validate model selection
AskValidateModel(c) ==
    /\ pc[c] = "ask_validate_model"
    /\ MayRun(c)
    /\ Log(c, <<"validate_model">>)
    /\ IF ~InList(args[c].model, supported_models)
       THEN Raise(c, UnsupportedModelMsg(args[c].model))
       ELSE Goto(c, "ask_validate_api_key")
    /\ UNCHANGED <<op, args, frame, environ, fs, dirs, uuids, written, lastFailure>>
    /\ UNCHANGED <<server, lastKey, lastCall>>

\* step 2 with `api_key is None` in place of `not api_key`
AskValidateApiKey_NoneOnly(c) ==
    /\ pc[c] = "ask_validate_api_key"
    /\ MayRun(c)
    /\ Log(c, <<"getenv">>)
    /\ frame' = [frame EXCEPT ![c].api_key = environ]
    /\ IF ~environ.some
       THEN Raise(c, MissingKeyMsg)
       ELSE Goto(c, "ask_extract_context")
    /\ UNCHANGED <<op, args, environ, fs, dirs, uuids, written, lastFailure>>
    /\ UNCHANGED <<server, lastKey, lastCall>>

\* step 2 with the credential kept from the call before when there is one
AskValidateApiKey_Cached(c) ==
    /\ pc[c] = "ask_validate_api_key"
    /\ MayRun(c)
    /\ Log(c, <<"getenv">>)
    /\ LET api_key == IF lastKey.read THEN lastKey.value ELSE environ
       IN  /\ frame' = [frame EXCEPT ![c].api_key = api_key]
           /\ IF ~api_key.some \/ api_key.val = <<>>
              THEN Raise(c, MissingKeyMsg)
              ELSE Goto(c, "ask_extract_context")
    /\ UNCHANGED <<op, args, environ, fs, dirs, uuids, written, lastFailure>>
    /\ UNCHANGED <<server, lastKey, lastCall>>

\* step 2 with the artifact directory made before the credential is looked at
AskValidateApiKey_MkdirFirst(c) ==
    /\ pc[c] = "ask_validate_api_key"
    /\ MayRun(c)
    /\ Log(c, <<"getenv">>)
    /\ frame' = [frame EXCEPT ![c].api_key = environ]
    /\ IF ~environ.some \/ environ.val = <<>>
       THEN Raise(c, MissingKeyMsg)
       ELSE Goto(c, "ask_extract_context")
    /\ dirs' = dirs \cup {temp_dir}
    /\ UNCHANGED <<op, args, environ, fs, uuids, written, lastFailure>>
    /\ UNCHANGED <<server, lastKey, lastCall>>

\* ask_gemini_question, step 2: validate API key
AskValidateApiKey(c) ==
    /\ pc[c] = "ask_validate_api_key"
    /\ MayRun(c)
    /\ Log(c, <<"getenv">>)
    /\ frame' = [frame EXCEPT ![c].api_key = environ]
    /\ IF ~environ.some \/ environ.val = <<>>
       THEN Raise(c, MissingKeyMsg)
       ELSE Goto(c, "ask_extract_context")
    /\ UNCHANGED <<op, args, environ, fs, dirs, uuids, written, lastFailure>>
    /\ UNCHANGED <<server, lastKey, lastCall>>

\* step 3 with the artifact of an earlier call used again when there is one
AskExtractContext_Cached(c) ==
    /\ pc[c] = "ask_extract_context"
    /\ MayRun(c)
    /\ IF DOMAIN written \cap DOMAIN fs = {}
       THEN /\ Log(c, <<"get_context_for_gemini">>)
            /\ frame' = [frame EXCEPT ![c].gcfg_scan = ForwardScan(args[c].scan)]
            /\ Goto(c, "gcfg_get_context")
       ELSE /\ UNCHANGED events
            /\ frame' = [frame EXCEPT ![c].context_file_path =
                            CHOOSE path \in DOMAIN written \cap DOMAIN fs : TRUE]
            /\ Goto(c, "ask_exists")
    /\ UNCHANGED <<op, args, environ, fs, dirs, uuids, written, lastFailure>>
    /\ UNCHANGED <<server, lastKey, lastCall>>

\* step 3 calling get_context itself
AskExtractContext_Direct(c) ==
    /\ pc[c] = "ask_extract_context"
    /\ MayRun(c)
    /\ Log(c, <<"get_context">>)
    /\ frame' = [frame EXCEPT ![c].gcfg_scan = ForwardScan(args[c].scan),
                              ![c].gc_scan = ForwardScan(args[c].scan)]
    /\ Goto(c, "gc_generate")
    /\ UNCHANGED <<op, args, environ, fs, dirs, uuids, written, lastFailure>>
    /\ UNCHANGED <<server, lastKey, lastCall>>

\* ask_gemini_question, step 3: await get_context_for_gemini(...)
AskExtractContext(c) ==
    /\ pc[c] = "ask_extract_context"
    /\ MayRun(c)
    /\ Log(c, <<"get_context_for_gemini">>)
    /\ frame' = [frame EXCEPT ![c].gcfg_scan = ForwardScan(args[c].scan)]
    /\ Goto(c, "gcfg_get_context")
    /\ UNCHANGED <<op, args, environ, fs, dirs, uuids, written, lastFailure>>
    /\ UNCHANGED <<server, lastKey, lastCall>>

\* get_context_for_gemini, step 1: await get_context(...)
GcfgGetContext(c) ==
    /\ pc[c] = "gcfg_get_context"
    /\ MayRun(c)
    /\ Log(c, <<"get_context">>)
    /\ frame' = [frame EXCEPT ![c].gc_scan = ForwardScan(frame[c].gcfg_scan)]
    /\ Goto(c, "gc_generate")
    /\ UNCHANGED <<op, args, environ, fs, dirs, uuids, written, lastFailure>>
    /\ UNCHANGED <<server, lastKey, lastCall>>

\* get_context with the token counts of the calls added up in a module-level total
GetContext_RunningTotal(c) ==
    /\ pc[c] = "gc_generate"
    /\ MayRun(c)
    /\ Log(c, <<"engine">>)
    /\ \/ \E r \in EngineResults :
            LET result == [prompt |-> r.prompt, directory |-> r.directory,
                           token_count |-> r.token_count]
            IN  /\ frame' = [frame EXCEPT ![c].engine_scan = ForwardScan(frame[c].gc_scan),
                                          ![c].context_result = result]
                /\ IF op[c] = "get_context"
                   THEN Return(c, [result EXCEPT !.token_count =
                                      @ + (IF lastCall.made
                                           THEN lastCall.consumed.context_result.token_count
                                           ELSE 0)])
                   ELSE Goto(c, "gcfg_mkdir")
       \/ \E e \in EngineErrors :
            /\ frame' = [frame EXCEPT ![c] =
                    CaughtInStep3([@ EXCEPT !.engine_scan = ForwardScan(frame[c].gc_scan),
                                            !.engine_error = Some(e)],
                                  op[c], GenerateFailedMsg(e))]
            /\ Raise(c, RaisedByGetContext(op[c], e))
    /\ UNCHANGED <<op, args, environ, fs, dirs, uuids, written, lastFailure>>
    /\ UNCHANGED <<server, lastKey, lastCall>>

\* get_context refusing a request that names no pattern
GetContext_RequirePatterns(c) ==
    /\ pc[c] = "gc_generate"
    /\ MayRun(c)
    /\ Log(c, <<"engine">>)
    /\ \/ /\ frame[c].gc_scan.include_patterns = <<>>
          /\ frame[c].gc_scan.exclude_patterns = <<>>
          /\ Raise(c, <<"N", "o", " ", "p", "a", "t", "t", "e", "r", "n", "s", " ", "g", "i", "v", "e", "n">>)
          /\ UNCHANGED frame
       \/ \E r \in EngineResults :
            /\ frame[c].gc_scan.include_patterns \o frame[c].gc_scan.exclude_patterns # <<>>
            /\ LET result == [prompt |-> r.prompt, directory |-> r.directory,
                              token_count |-> r.token_count]
               IN  /\ frame' = [frame EXCEPT ![c].engine_scan = ForwardScan(frame[c].gc_scan),
                                             ![c].context_result = result]
                   /\ IF op[c] = "get_context"
                      THEN Return(c, result)
                      ELSE Goto(c, "gcfg_mkdir")
       \/ \E e \in EngineErrors :
            /\ frame' = [frame EXCEPT ![c] =
                    CaughtInStep3([@ EXCEPT !.engine_scan = ForwardScan(frame[c].gc_scan),
                                            !.engine_error = Some(e)],
                                  op[c], GenerateFailedMsg(e))]
            /\ Raise(c, RaisedByGetContext(op[c], e))
    /\ UNCHANGED <<op, args, environ, fs, dirs, uuids, written, lastFailure>>
    /\ UNCHANGED <<server, lastKey, lastCall>>

\* get_context: Code2Prompt(...).generate(...), then the structured result
GetContext(c) ==
    /\ pc[c] = "gc_generate"
    /\ MayRun(c)
    /\ Log(c, <<"engine">>)
    /\ \/ \E r \in EngineResults :
            LET result == [prompt |-> r.prompt, directory |-> r.directory,
                           token_count |-> r.token_count]
            IN  /\ frame' = [frame EXCEPT ![c].engine_scan = ForwardScan(frame[c].gc_scan),
                                          ![c].context_result = result]
                /\ IF op[c] = "get_context"
                   THEN Return(c, result)
                   ELSE Goto(c, "gcfg_mkdir")
       \/ \E e \in EngineErrors :
            /\ frame' = [frame EXCEPT ![c] =
                    CaughtInStep3([@ EXCEPT !.engine_scan = ForwardScan(frame[c].gc_scan),
                                            !.engine_error = Some(e)],
                                  op[c], GenerateFailedMsg(e))]
            /\ Raise(c, RaisedByGetContext(op[c], e))
    /\ UNCHANGED <<op, args, environ, fs, dirs, uuids, written, lastFailure>>
    /\ UNCHANGED <<server, lastKey, lastCall>>

\* get_context_for_gemini, step 2: temp directory and unique file name
GcfgMkdir(c) ==
    /\ pc[c] = "gcfg_mkdir"
    /\ MayRun(c)
    /\ Log(c, <<"mkdir">>)
    /\ \/ /\ dirs' = dirs \cup {temp_dir}
          /\ uuids' = uuids + 1
          /\ frame' = [frame EXCEPT ![c].output_file = OutputFile(uuids)]
          /\ Goto(c, "gcfg_write")
       \/ \E ex \in MkdirErrors :
          /\ Raise(c, RaisedByGcfg(op[c], ex.msg))
          /\ frame' = [frame EXCEPT ![c] =
                  CaughtInStep3([@ EXCEPT !.mkdir_error = Some(ex.msg)], op[c], ex.msg)]
          /\ UNCHANGED <<dirs, uuids>>
    /\ UNCHANGED <<op, args, environ, fs, written, lastFailure>>
    /\ UNCHANGED <<server, lastKey, lastCall>>

\* get_context_for_gemini, steps 3 and 4: write the file, return its path
GcfgWrite(c) ==
    /\ pc[c] = "gcfg_write"
    /\ MayRun(c)
    /\ Log(c, <<"write_text">>)
    /\ LET output_file == frame[c].output_file
           content == ArtifactContent(frame[c].context_result.prompt)
       IN  \/ /\ fs' = WriteFile(output_file, write_text(content))
              /\ written' = [p \in DOMAIN written \cup {output_file} |->
                                IF p = output_file THEN content ELSE written[p]]
              /\ IF op[c] = "get_context_for_gemini"
                 THEN /\ Return(c, absolute(output_file))
                      /\ frame' = [frame EXCEPT ![c].content = content]
                 ELSE /\ Goto(c, "ask_exists")
                      /\ frame' = [frame EXCEPT ![c].content = content,
                                                ![c].context_file_path =
                                                    absolute(output_file)]
           \/ \E ex \in WriteErrors :
              /\ \/ UNCHANGED fs
                 \/ /\ ex.type # "PermissionError"
                    /\ fs' = WriteFile(output_file, <<>>)
              /\ Raise(c, RaisedByGcfg(op[c], WriteFailure(output_file, ex)))
              /\ frame' = [frame EXCEPT ![c] =
                      CaughtInStep3([@ EXCEPT !.content = content, !.write_error = ex],
                                    op[c],
                                    WriteFailure(output_file, ex))]
              /\ UNCHANGED written
    /\ UNCHANGED <<op, args, environ, dirs, uuids, lastFailure>>
    /\ UNCHANGED <<server, lastKey, lastCall>>

\* step 4 waiting for the artifact to appear in place of failing
AskExists_Poll(c) ==
    /\ pc[c] = "ask_exists"
    /\ MayRun(c)
    /\ IF frame[c].context_file_path \notin DOMAIN fs
       THEN UNCHANGED <<pc, outcome, events>>
       ELSE Log(c, <<"exists">>) /\ Goto(c, "ask_read")
    /\ UNCHANGED <<op, args, frame, environ, fs, dirs, uuids, written, lastFailure>>
    /\ UNCHANGED <<server, lastKey, lastCall>>

\* ask_gemini_question, step 4: the existence check
AskExists(c) ==
    /\ pc[c] = "ask_exists"
    /\ MayRun(c)
    /\ Log(c, <<"exists">>)
    /\ IF frame[c].context_file_path \notin DOMAIN fs
       THEN /\ Raise(c, ReadFailedMsg(FileNotFoundMsg(frame[c].context_file_path)))
            /\ frame' = [frame EXCEPT ![c].read_error =
                            Some(FileNotFoundMsg(frame[c].context_file_path))]
       ELSE /\ Goto(c, "ask_read")
            /\ UNCHANGED frame
    /\ UNCHANGED <<op, args, environ, fs, dirs, uuids, written, lastFailure>>
    /\ UNCHANGED <<server, lastKey, lastCall>>

\* ask_gemini_question, step 4: read_text
AskRead(c) ==
    /\ pc[c] = "ask_read"
    /\ MayRun(c)
    /\ Log(c, <<"read_text">>)
    /\ LET path == frame[c].context_file_path
       IN  IF path \notin DOMAIN fs
           THEN /\ Raise(c, ReadFailedMsg(NoSuchFileMsg(path)))
                /\ frame' = [frame EXCEPT ![c].read_error = Some(NoSuchFileMsg(path))]
           ELSE \/ /\ frame' = [frame EXCEPT ![c].context_content = read_text(fs[path])]
                   /\ Goto(c, "ask_query")
                \/ \E e \in ReadErrors :
                   /\ Raise(c, ReadFailedMsg(e))
                   /\ frame' = [frame EXCEPT ![c].read_error = Some(e)]
    /\ UNCHANGED <<op, args, environ, fs, dirs, uuids, written, lastFailure>>
    /\ UNCHANGED <<server, lastKey, lastCall>>

\* ask_gemini_question, step 5: the client, the query and the except clause
AskQuery(c) ==
    /\ pc[c] = "ask_query"
    /\ MayRun(c)
    /\ LET full_prompt == FullPrompt(frame[c].context_content, args[c].question)
           request == [model |-> args[c].model, contents |-> full_prompt,
                       api_key |-> frame[c].api_key,
                       temperature |-> TemperatureTenths,
                       max_output_tokens |-> MaxOutputTokens]
       IN  \/ \E e \in ClientErrors :
                /\ Log(c, <<"Client">>)
                /\ frame' = [frame EXCEPT ![c].upstream = Some(e)]
                /\ Raise(c, HostedModelFailure(e))
           \/ \E e \in UpstreamErrors :
                /\ Log(c, <<"Client", "generate_content">>)
                /\ frame' = [frame EXCEPT ![c].full_prompt = full_prompt,
                                          ![c].request = request,
                                          ![c].upstream = Some(e)]
                /\ Raise(c, HostedModelFailure(e))
           \/ \E response \in Responses :
                /\ Log(c, <<"Client", "generate_content">>)
                /\ frame' = [frame EXCEPT ![c].full_prompt = full_prompt,
                                          ![c].request = request,
                                          ![c].response = response]
                /\ Return(c, [answer |-> Answer(response),
                              context_file |-> frame[c].context_file_path,
                              token_count |-> split_len(full_prompt),
                              model_used |-> args[c].model])
    /\ UNCHANGED <<op, args, environ, fs, dirs, uuids, written, lastFailure>>
    /\ UNCHANGED <<server, lastKey, lastCall>>

\* Finish with the artifact of the call removed on the way out
Finish_Cleanup(c) ==
    /\ pc[c] \in {"returned", "raised"}
    /\ pc' = [pc EXCEPT ![c] = "done"]
    /\ op' = [op EXCEPT ![c] = "none"]
    /\ args' = [args EXCEPT ![c] = NoInvocation]
    /\ frame' = [frame EXCEPT ![c] = EmptyFrame]
    /\ outcome' = [outcome EXCEPT ![c] = NoOutcome]
    /\ events' = [events EXCEPT ![c] = <<>>]
    /\ fs' = [p \in DOMAIN fs \ {frame[c].context_file_path} |-> fs[p]]
    /\ UNCHANGED <<environ, dirs, uuids, written>>
    /\ UNCHANGED server

\* the result or the failure goes back to the client; the coroutine's frame is gone
Finish(c) ==
    /\ pc[c] \in {"returned", "raised"}
    /\ pc' = [pc EXCEPT ![c] = "done"]
    /\ op' = [op EXCEPT ![c] = "none"]
    /\ args' = [args EXCEPT ![c] = NoInvocation]
    /\ frame' = [frame EXCEPT ![c] = EmptyFrame]
    /\ outcome' = [outcome EXCEPT ![c] = NoOutcome]
    /\ events' = [events EXCEPT ![c] = <<>>]
    /\ UNCHANGED <<environ, fs, dirs, uuids, written>>
    /\ UNCHANGED server

Deliver(c) ==
    /\ Finish(c)
    /\ UNCHANGED <<lastFailure, lastKey, lastCall>>

\* Deliver, remembering a failure of the hosted model for comparison with later ones
DeliverRecorded(c) ==
    /\ Finish(c)
    /\ lastFailure' = IF frame[c].upstream.some
                      THEN [upstream |-> frame[c].upstream, surfaced |-> outcome[c].msg]
                      ELSE lastFailure
    /\ UNCHANGED <<lastKey, lastCall>>

\* Deliver, remembering the credential that ask_gemini_question read
DeliverKeyRecorded(c) ==
    /\ Finish(c)
    /\ lastKey' = IF op[c] = "ask_gemini_question" /\ InList("getenv", events[c])
                  THEN [read |-> TRUE, value |-> frame[c].api_key]
                  ELSE lastKey
    /\ UNCHANGED <<lastFailure, lastCall>>

\* what call c received: its arguments, the credential, and what the engine, the
\* file system and the hosted model answered to the calls it made
Consumed(c) ==
    [args |-> args[c],
     credential |-> environ,
     events |-> events[c],
     context_result |-> frame[c].context_result,
     engine_error |-> frame[c].engine_error,
     mkdir_error |-> frame[c].mkdir_error,
     write_error |-> frame[c].write_error,
     context_content |-> frame[c].context_content,
     read_error |-> frame[c].read_error,
     upstream |-> frame[c].upstream,
     response |-> frame[c].response]

\* Deliver, remembering the call for comparison with the next one
DeliverCallRecorded(c) ==
    /\ Finish(c)
    /\ lastCall' = [made |-> TRUE, consumed |-> Consumed(c), outcome |-> outcome[c],
                    output_file |-> frame[c].output_file]
    /\ UNCHANGED <<lastFailure, lastKey>>

(***************************************************************************)
(* The environment                                                         *)
(***************************************************************************)
\* GEMINI_API_KEY is set, replaced or removed between two calls
SetEnv(v) ==
    /\ \A c \in Calls : ~Active(c)
    /\ v # environ
    /\ environ' = v
    /\ UNCHANGED <<pc, op, args, frame, outcome, events, fs, dirs, uuids, written,
                   lastFailure>>
    /\ UNCHANGED <<server, lastKey, lastCall>>

\* something outside the server removes a file of the temp directory; only a
\* removal between the write and the read of a call is seen by the server
ExternalRemove(path) ==
    /\ path \in DOMAIN fs
    /\ \E c \in Calls : /\ pc[c] \in {"ask_exists", "ask_read"}
                        /\ path = frame[c].context_file_path
    /\ fs' = [p \in DOMAIN fs \ {path} |-> fs[p]]
    /\ UNCHANGED <<pc, op, args, frame, outcome, events, environ, dirs, uuids, written,
                   lastFailure>>
    /\ UNCHANGED <<server, lastKey, lastCall>>

\* something outside the server empties a file of the temp directory between
\* the write and the read of a call
ExternalTruncate(path) ==
    /\ path \in DOMAIN fs
    /\ fs[path] # <<>>
    /\ \E c \in Calls : /\ pc[c] \in {"ask_exists", "ask_read"}
                        /\ path = frame[c].context_file_path
    /\ fs' = WriteFile(path, <<>>)
    /\ UNCHANGED <<pc, op, args, frame, outcome, events, environ, dirs, uuids, written,
                   lastFailure>>
    /\ UNCHANGED <<server, lastKey, lastCall>>

\* a step of a call that is running
Step(c) ==
    \/ AskValidateModel(c)
    \/ AskValidateApiKey(c)
    \/ AskExtractContext(c)
    \/ GcfgGetContext(c)
    \/ GetContext(c)
    \/ GcfgMkdir(c)
    \/ GcfgWrite(c)
    \/ AskExists(c)
    \/ AskRead(c)
    \/ AskQuery(c)

\* a step of the world around the calls
Environment ==
    \/ \E v \in KeyValues : SetEnv(v)
    \/ \E path \in DOMAIN fs : ExternalRemove(path)
    \/ \E path \in DOMAIN fs : ExternalTruncate(path)

Next ==
    \/ \E c \in Calls : Start(c)
    \/ \E c \in Calls : Step(c)
    \/ \E c \in Calls : Deliver(c)
    \/ Environment

Spec == Init /\ [][Next]_vars

\* every call that the engine, the file system or the hosted model answers goes
\* on: a coroutine runs on to its return or raise once the call it waits for
\* has returned or raised
Fairness == \A c \in Calls : WF_vars(Step(c))

SpecFair == Init /\ [][Next]_vars /\ Fairness

NextHistory ==
    \/ \E c \in Calls : Start(c)
    \/ \E c \in Calls : Step(c)
    \/ \E c \in Calls : DeliverRecorded(c)
    \/ Environment

\* the same server, with the history of hosted-model failures kept
SpecHistory == Init /\ [][NextHistory]_vars

NextRotation ==
    \/ \E c \in Calls : Start(c)
    \/ \E c \in Calls : Step(c)
    \/ \E c \in Calls : DeliverKeyRecorded(c)
    \/ Environment

\* the same server, with the history of the credentials read kept
SpecRotation == Init /\ [][NextRotation]_vars

\* a file of a call is removed or emptied from outside
FileChange ==
    \/ \E path \in DOMAIN fs : ExternalRemove(path)
    \/ \E path \in DOMAIN fs : ExternalTruncate(path)

NextReplay ==
    \/ \E c \in Calls : Start(c)
    \/ \E c \in Calls : Step(c)
    \/ \E c \in Calls : DeliverCallRecorded(c)
    \/ FileChange

\* the credential stays as it is while the server runs
InitReplay == Init /\ environ \in {None, Some(<<"k", "1">>)}

\* the same server under one credential, with the last call delivered kept
SpecReplay == InitReplay /\ [][NextReplay]_vars

\* a tool call to get_context_for_gemini arrives
StartGcfg(c) == Start(c) /\ op'[c] = "get_context_for_gemini"

\* a step of get_context_for_gemini or of the get_context it awaits
GcfgStep(c) ==
    \/ GcfgGetContext(c)
    \/ GetContext(c)
    \/ GcfgMkdir(c)
    \/ GcfgWrite(c)

NextInterleaved ==
    \/ \E c \in Calls : StartGcfg(c)
    \/ \E c \in Calls : GcfgStep(c)
    \/ \E c \in Calls : Deliver(c)

\* every call is served by a server process of its own; the processes share
\* the system temp directory (the credential plays no part here)
InitInterleaved == Boot([c \in Calls |-> c]) /\ environ = None

\* get_context_for_gemini calls whose steps interleave in every order
SpecInterleaved == InitInterleaved /\ [][NextInterleaved]_vars



(***************************************************************************)
(* Properties                                                              *)
(***************************************************************************)
Range(s) == {s[i] : i \in 1..Len(s)}

IsPrefix(s, t) == Len(s) <= Len(t) /\ SubSeq(t, 1, Len(s)) = s

Last(s) == s[Len(s)]

IsAsk(c) == op[c] = "ask_gemini_question"

Failed(c) == pc[c] = "raised" /\ outcome[c].kind = "raise"

SupportedNames == {GeminiPro, GeminiFlash}

KeyMissing == ~environ.some \/ environ.val = <<>>

\* the calls of one ask_gemini_question, in the order of its five stages
StageOrder ==
    <<"validate_model", "getenv",
      "get_context_for_gemini", "get_context", "engine", "mkdir", "write_text",
      "exists", "read_text",
      "Client", "generate_content">>

\* C1: ask_gemini_question runs validate-model, validate-credential,
\* obtain-artifact, read-artifact, query-model in this order and reports the
\* failure of the first stage that fails: an unsupported model fails with the
\* invalid-model error even when the credential is missing too, a supported
\* model with a missing credential fails with the missing-credential error
\* before get_context_for_gemini is invoked, and the hosted model is invoked
\* only after stages 1-4 have succeeded.
C1_StagesInOrder ==
    \A c \in Calls : IsAsk(c) =>
        /\ IsPrefix(events[c], StageOrder)
        /\ (Failed(c) /\ args[c].model \notin SupportedNames) =>
                /\ StartsWith(outcome[c].msg, <<"U", "n", "s", "u", "p", "p", "o", "r", "t", "e", "d", " ", "m", "o", "d", "e", "l">>)
                /\ events[c] = <<"validate_model">>
        /\ (Failed(c) /\ args[c].model \in SupportedNames /\ KeyMissing) =>
                /\ StartsWith(outcome[c].msg, <<"G", "E", "M", "I", "N", "I", "_", "A", "P", "I", "_", "K", "E", "Y", " ", "e", "n", "v", "i", "r", "o", "n", "m", "e", "n", "t", " ", "v", "a", "r", "i", "a", "b", "l", "e", " ", "i", "s", " ", "r", "e", "q", "u", "i", "r", "e", "d">>)
                /\ "get_context_for_gemini" \notin Range(events[c])
        /\ "generate_content" \in Range(events[c]) =>
                /\ args[c].model \in SupportedNames
                /\ ~KeyMissing
                /\ frame[c].context_file_path # <<>>
                /\ {"get_context_for_gemini", "write_text", "exists", "read_text"}
                      \subseteq Range(events[c])

\* an unsupported model and a missing credential at once
C1_Witness ==
    \E c \in Calls :
        IsAsk(c) /\ Failed(c) /\ args[c].model \notin SupportedNames /\ KeyMissing

\* C2: for every model name other than gemini-2.5-pro and gemini-2.5-flash,
\* ask_gemini_question fails with a message that contains the rejected name and
\* the literal list "gemini-2.5-pro, gemini-2.5-flash"; the two supported names
\* are not rejected at this stage.
C2_UnsupportedModelRejected ==
    \A c \in Calls : (IsAsk(c) /\ events[c] # <<>>) =>
        IF args[c].model \notin SupportedNames
        THEN /\ Failed(c)
             /\ Contains(outcome[c].msg, args[c].model)
             /\ Contains(outcome[c].msg, <<"g", "e", "m", "i", "n", "i", "-", "2", ".", "5", "-", "p", "r", "o", ",", " ", "g", "e", "m", "i", "n", "i", "-", "2", ".", "5", "-", "f", "l", "a", "s", "h">>)
        ELSE /\ events[c] = <<"validate_model">> => pc[c] = "ask_validate_api_key"
             /\ Failed(c) => ~Contains(outcome[c].msg, <<"U", "n", "s", "u", "p", "p", "o", "r", "t", "e", "d", " ", "m", "o", "d", "e", "l">>)

\* a name that differs from a supported one only in letter case is rejected
C2_Witness ==
    \E c \in Calls :
        IsAsk(c) /\ Failed(c) /\ args[c].model = <<"G", "e", "m", "i", "n", "i", "-", "2", ".", "5", "-", "P", "r", "o">>

\* C3: with a supported model and GEMINI_API_KEY absent or empty,
\* ask_gemini_question fails with a message that names GEMINI_API_KEY and
\* mentions creating a .env file, and neither the external engine nor the
\* hosted model is invoked.
C3_MissingCredentialRejected ==
    \A c \in Calls :
        (IsAsk(c) /\ args[c].model \in SupportedNames /\ KeyMissing) =>
            /\ Range(events[c]) \cap {"engine", "Client", "generate_content"} = {}
            /\ "getenv" \in Range(events[c]) =>
                    /\ Failed(c)
                    /\ Contains(outcome[c].msg, <<"G", "E", "M", "I", "N", "I", "_", "A", "P", "I", "_", "K", "E", "Y">>)
                    /\ Contains(outcome[c].msg, <<"c", "r", "e", "a", "t", "e", " ", "a", " ", ".", "e", "n", "v", " ", "f", "i", "l", "e">>)

\* the credential is present but empty
C3_Witness ==
    \E c \in Calls :
        /\ IsAsk(c) /\ Failed(c) /\ args[c].model \in SupportedNames
        /\ environ = Some(<<>>)


\* the five classification rules, in priority order, and the fallback
Categories ==
    <<"auth-failure", "rate-limit", "content-filtered", "model-unavailable",
      "network-timeout", "generic-service-error">>

\* the rule of category number k applied to the upstream message e
RuleMatches(k, e) ==
    LET m == lower(e)
    IN  CASE k = 1 -> Contains(m, <<"a", "u", "t", "h", "e", "n", "t", "i", "c", "a", "t", "i", "o", "n">>) \/ Contains(m, <<"a", "p", "i", " ", "k", "e", "y">>)
          [] k = 2 -> Contains(m, <<"r", "a", "t", "e", " ", "l", "i", "m", "i", "t">>) \/ Contains(m, <<"q", "u", "o", "t", "a">>)
          [] k = 3 -> Contains(m, <<"s", "a", "f", "e", "t", "y">>) \/ Contains(m, <<"b", "l", "o", "c", "k", "e", "d">>)
          [] k = 4 -> Contains(m, <<"m", "o", "d", "e", "l">>) /\ Contains(m, <<"u", "n", "a", "v", "a", "i", "l", "a", "b", "l", "e">>)
          [] k = 5 -> Contains(m, <<"t", "i", "m", "e", "o", "u", "t">>) \/ Contains(m, <<"n", "e", "t", "w", "o", "r", "k">>)
          [] k = 6 -> TRUE

\* first match wins
CategoryOf(e) ==
    Categories[CHOOSE k \in 1..6 : RuleMatches(k, e) /\ \A j \in 1..(k - 1) : ~RuleMatches(j, e)]

\* the phrase by which a surfaced message names its category
CategoryPhrase ==
    <<<<"A", "u", "t", "h", "e", "n", "t", "i", "c", "a", "t", "i", "o", "n", " ", "f", "a", "i", "l", "e", "d", ":", " ", "I", "n", "v", "a", "l", "i", "d", " ", "o", "r", " ", "e", "x", "p", "i", "r", "e", "d", " ", "A", "P", "I", " ", "k", "e", "y">>,
      <<"R", "a", "t", "e", " ", "l", "i", "m", "i", "t", " ", "e", "x", "c", "e", "e", "d", "e", "d">>,
      <<"C", "o", "n", "t", "e", "n", "t", " ", "b", "l", "o", "c", "k", "e", "d", " ", "b", "y", " ", "s", "a", "f", "e", "t", "y", " ", "f", "i", "l", "t", "e", "r", "s">>,
      <<"G", "e", "m", "i", "n", "i", " ", "m", "o", "d", "e", "l", " ", "t", "e", "m", "p", "o", "r", "a", "r", "i", "l", "y", " ", "u", "n", "a", "v", "a", "i", "l", "a", "b", "l", "e">>,
      <<"N", "e", "t", "w", "o", "r", "k", " ", "t", "i", "m", "e", "o", "u", "t">>,
      <<"A", "I", " ", "s", "e", "r", "v", "i", "c", "e", " ", "e", "r", "r", "o", "r", ":", " ">>>>

\* call c failed in the hosted-model stage
ModelStageFailed(c) == IsAsk(c) /\ Failed(c) /\ frame[c].upstream.some

\* C4: a failure of the hosted-model stage is classified by case-insensitive
\* substring tests in the fixed priority order auth-failure, rate-limit,
\* content-filtered, model-unavailable, network-timeout, else
\* generic-service-error; exactly one category is chosen and a message that
\* matches several rules gets the category of the earliest one.
C4_FirstMatchWins ==
    \A c \in Calls : ModelStageFailed(c) =>
        {Categories[k] : k \in {j \in 1..6 : StartsWith(outcome[c].msg, CategoryPhrase[j])}}
            = {CategoryOf(frame[c].upstream.val)}

\* an upstream message that matches two of the five rules
C4_Witness ==
    \E c \in Calls :
        /\ ModelStageFailed(c)
        /\ Cardinality({k \in 1..5 : RuleMatches(k, frame[c].upstream.val)}) >= 2

RateLimited(c) ==
    /\ ModelStageFailed(c)
    /\ Contains(lower(frame[c].upstream.val), <<"r", "a", "t", "e", " ", "l", "i", "m", "i", "t">>)
    /\ ~RuleMatches(1, frame[c].upstream.val)

\* C6: a hosted-model failure whose message contains "rate limit" in any
\* letter case, and is not caught by the authentication rule, is surfaced
\* with "Rate limit exceeded" and without the raw upstream message, unless
\* that message is itself part of the category phrase.
C6_RateLimitSurfaced ==
    \A c \in Calls : RateLimited(c) =>
        /\ Contains(outcome[c].msg, <<"R", "a", "t", "e", " ", "l", "i", "m", "i", "t", " ", "e", "x", "c", "e", "e", "d", "e", "d">>)
        /\ Contains(outcome[c].msg, frame[c].upstream.val)
              => Contains(<<"R", "a", "t", "e", " ", "l", "i", "m", "i", "t", " ", "e", "x", "c", "e", "e", "d", "e", "d">>, frame[c].upstream.val)

\* an upper-case rate-limit message that carries more than the category phrase
C6_Witness ==
    \E c \in Calls :
        /\ RateLimited(c)
        /\ ~Contains(frame[c].upstream.val, <<"r", "a", "t", "e", " ", "l", "i", "m", "i", "t">>)
        /\ ~Contains(<<"R", "a", "t", "e", " ", "l", "i", "m", "i", "t", " ", "e", "x", "c", "e", "e", "d", "e", "d">>, frame[c].upstream.val)

Stage3Failed(c) ==
    /\ IsAsk(c) /\ Failed(c)
    /\ events[c] # <<>>
    /\ Last(events[c]) \in {"engine", "mkdir", "write_text"}

\* C8: a failure of get_context_for_gemini inside ask_gemini_question is
\* surfaced with a message that starts with "Context extraction failed" and
\* contains the original failure message unchanged; the artifact is not read
\* and the hosted model is not called.
C8_ExtractionFailureWrapped ==
    \A c \in Calls : Stage3Failed(c) =>
        /\ frame[c].extract_error.some
        /\ frame[c].extract_error.val # <<>>
        /\ StartsWith(outcome[c].msg, <<"C", "o", "n", "t", "e", "x", "t", " ", "e", "x", "t", "r", "a", "c", "t", "i", "o", "n", " ", "f", "a", "i", "l", "e", "d">>)
        /\ Contains(outcome[c].msg, frame[c].extract_error.val)
        /\ Range(events[c]) \cap {"exists", "read_text", "Client", "generate_content"} = {}

\* the write of the artifact failed inside ask_gemini_question
C8_Witness ==
    \E c \in Calls : Stage3Failed(c) /\ Last(events[c]) = "write_text"

\* C9: in stage 4 a missing artifact file yields a message that contains
\* "Context file not found at" and the path, a failure to read the file yields
\* a message that contains "Failed to read context file", and the message
\* tells which of the two occurred.
C9_MissingAndUnreadableDistinct ==
    \A c \in Calls : (IsAsk(c) /\ Failed(c) /\ events[c] # <<>>) =>
        /\ Last(events[c]) = "exists" =>
              /\ frame[c].context_file_path \notin DOMAIN fs
              /\ Contains(outcome[c].msg,
                          <<"C", "o", "n", "t", "e", "x", "t", " ", "f", "i", "l", "e", " ", "n", "o", "t", " ", "f", "o", "u", "n", "d", " ", "a", "t">> \o <<":", " ">> \o frame[c].context_file_path)
        /\ Last(events[c]) = "read_text" =>
              /\ Contains(outcome[c].msg, <<"F", "a", "i", "l", "e", "d", " ", "t", "o", " ", "r", "e", "a", "d", " ", "c", "o", "n", "t", "e", "x", "t", " ", "f", "i", "l", "e">>)
              /\ ~Contains(outcome[c].msg, <<"C", "o", "n", "t", "e", "x", "t", " ", "f", "i", "l", "e", " ", "n", "o", "t", " ", "f", "o", "u", "n", "d", " ", "a", "t">>)

\* the artifact was removed before the existence check
C9_Witness ==
    \E c \in Calls : IsAsk(c) /\ Failed(c) /\ events[c] # <<>> /\ Last(events[c]) = "exists"

\* the text is empty or consists of whitespace only
IsBlank(s) == \A i \in 1..Len(s) : IsSpace(s[i])

\* the text read back from the file at path
ReadBack(path) == read_text(fs[path])

\* C10: when get_context_for_gemini returns, reading the file at the returned
\* path yields exactly the prompt get_context produced (non-ASCII included) or,
\* when that prompt is empty or whitespace-only, the notice containing
\* "No context generated" and "No files were found"; no artifact written by
\* get_context_for_gemini is empty or whitespace-only.
C10_ArtifactHoldsPrompt ==
    /\ \A c \in Calls : (op[c] = "get_context_for_gemini" /\ pc[c] = "returned") =>
          /\ outcome[c].value \in DOMAIN fs
          /\ IF IsBlank(frame[c].context_result.prompt)
             THEN /\ Contains(ReadBack(outcome[c].value), <<"N", "o", " ", "c", "o", "n", "t", "e", "x", "t", " ", "g", "e", "n", "e", "r", "a", "t", "e", "d">>)
                  /\ Contains(ReadBack(outcome[c].value), <<"N", "o", " ", "f", "i", "l", "e", "s", " ", "w", "e", "r", "e", " ", "f", "o", "u", "n", "d">>)
             ELSE ReadBack(outcome[c].value) = frame[c].context_result.prompt
    /\ \A path \in DOMAIN written \cap DOMAIN fs :
          /\ fs[path] # <<>>
          /\ ~IsBlank(ReadBack(path))

\* the path get_context_for_gemini hands to its caller in this step, if any
GcfgReturned(c) == pc[c] = "gcfg_write" /\ pc'[c] \in {"returned", "ask_exists"}

\* C11: every successful return of get_context_for_gemini, to the client or
\* to ask_gemini_question, yields an absolute path, and at the moment of the
\* return a file exists at that path.
C11_ReturnsExistingAbsolutePath ==
    [][\A c \in Calls : GcfgReturned(c) =>
          LET path == IF pc'[c] = "returned" THEN outcome'[c].value
                      ELSE frame'[c].context_file_path
          IN  /\ IsAbsolute(path)
              /\ path \in DOMAIN fs']_vars

\* a direct call has returned the path of its file
C11_Witness ==
    \E c \in Calls :
        /\ op[c] = "get_context_for_gemini" /\ pc[c] = "returned"
        /\ outcome[c].value = OutputFile(uuids - 1)
        /\ outcome[c].value \in DOMAIN fs

\* call c is a direct get_context_for_gemini call that has returned
GcfgDone(c) == op[c] = "get_context_for_gemini" /\ pc[c] = "returned"

\* the text stored in the file at path
Stored(path) == decode_utf8(fs[path])

C13_FixedFileInCwd ==
    /\ \A c \in Calls : GcfgDone(c) =>
          /\ outcome[c].value = Cwd \o <<"/">> \o <<"l", "a", "t", "e", "s", "t", "_", "c", "o", "n", "t", "e", "x", "t", ".", "t", "x", "t">>
          /\ Stored(outcome[c].value) = ArtifactContent(frame[c].context_result.prompt)
    /\ DOMAIN written \subseteq {Cwd \o <<"/">> \o <<"l", "a", "t", "e", "s", "t", "_", "c", "o", "n", "t", "e", "x", "t", ".", "t", "x", "t">>}

\* call c failed while writing the artifact
WriteFailed(c) ==
    /\ Failed(c)
    /\ events[c] # <<>>
    /\ Last(events[c]) = "write_text"

\* the message get_context_for_gemini raised in call c
GcfgMessage(c) == IF IsAsk(c) THEN frame[c].extract_error.val ELSE outcome[c].msg

\* the four ways a write failure is surfaced, each with the target path
WriteCategoryPrefix(path) ==
    [permission |-> <<"P", "e", "r", "m", "i", "s", "s", "i", "o", "n", " ", "d", "e", "n", "i", "e", "d", " ", "w", "h", "e", "n", " ", "w", "r", "i", "t", "i", "n", "g", " ", "t", "o", " ">> \o path \o <<":", " ">>,
     no_space   |-> <<"I", "n", "s", "u", "f", "f", "i", "c", "i", "e", "n", "t", " ", "d", "i", "s", "k", " ", "s", "p", "a", "c", "e", " ", "t", "o", " ", "w", "r", "i", "t", "e", " ", "c", "o", "n", "t", "e", "x", "t", " ", "f", "i", "l", "e", " ", "t", "o", " ">> \o path,
     os_error   |-> <<"F", "a", "i", "l", "e", "d", " ", "t", "o", " ", "w", "r", "i", "t", "e", " ", "c", "o", "n", "t", "e", "x", "t", " ", "f", "i", "l", "e", " ", "t", "o", " ">> \o path \o <<":", " ">>,
     unexpected |-> <<"U", "n", "e", "x", "p", "e", "c", "t", "e", "d", " ", "e", "r", "r", "o", "r", " ", "w", "r", "i", "t", "i", "n", "g", " ", "c", "o", "n", "t", "e", "x", "t", " ", "f", "i", "l", "e", " ", "t", "o", " ">> \o path \o <<":", " ">>]

\* the category the claim gives to an exception
WriteCategoryOf(ex) ==
    IF ex.type = "PermissionError" THEN "permission"
    ELSE IF IsOSError(ex) THEN (IF ex.errno = 28 THEN "no_space" ELSE "os_error")
    ELSE "unexpected"

\* C14: every failure while writing the artifact is surfaced in exactly one
\* of four categories, each message naming the target path: a permission
\* error as "Permission denied when writing to <path>" whatever its error
\* code, an OS error with errno 28 as "Insufficient disk space", any other OS
\* error as "Failed to write context file to <path>" with the original
\* message, any other exception as "Unexpected error writing context file to
\* <path>".
C14_WriteFailureCategories ==
    \A c \in Calls : WriteFailed(c) =>
        LET ex == frame[c].write_error
            path == frame[c].output_file
            m == GcfgMessage(c)
            prefix == WriteCategoryPrefix(path)
        IN  /\ ex \in WriteErrors
            /\ path # <<>>
            /\ StartsWith(m, prefix[WriteCategoryOf(ex)])
            /\ Cardinality({k \in DOMAIN prefix : StartsWith(m, prefix[k])}) = 1
            /\ WriteCategoryOf(ex) = "os_error" => Contains(m, ex.msg)
            /\ Contains(m, path)

\* a permission error that carries the no-space error code
C14_Witness ==
    \E c \in Calls :
        /\ WriteFailed(c)
        /\ frame[c].write_error.type = "PermissionError"
        /\ frame[c].write_error.errno = 28

\* the texts with which the operations announce the stage that failed
StagePrefixes ==
    {<<"U", "n", "s", "u", "p", "p", "o", "r", "t", "e", "d", " ", "m", "o", "d", "e", "l">>,
     <<"G", "E", "M", "I", "N", "I", "_", "A", "P", "I", "_", "K", "E", "Y", " ", "e", "n", "v", "i", "r", "o", "n", "m", "e", "n", "t", " ", "v", "a", "r", "i", "a", "b", "l", "e", " ", "i", "s", " ", "r", "e", "q", "u", "i", "r", "e", "d">>,
     <<"F", "a", "i", "l", "e", "d", " ", "t", "o", " ", "g", "e", "n", "e", "r", "a", "t", "e", " ", "c", "o", "d", "e", "b", "a", "s", "e", " ", "c", "o", "n", "t", "e", "x", "t", ":", " ">>,
     <<"P", "e", "r", "m", "i", "s", "s", "i", "o", "n", " ", "d", "e", "n", "i", "e", "d", " ", "w", "h", "e", "n", " ", "w", "r", "i", "t", "i", "n", "g", " ", "t", "o", " ">>,
     <<"I", "n", "s", "u", "f", "f", "i", "c", "i", "e", "n", "t", " ", "d", "i", "s", "k", " ", "s", "p", "a", "c", "e", " ", "t", "o", " ", "w", "r", "i", "t", "e", " ", "c", "o", "n", "t", "e", "x", "t", " ", "f", "i", "l", "e", " ", "t", "o", " ">>,
     <<"F", "a", "i", "l", "e", "d", " ", "t", "o", " ", "w", "r", "i", "t", "e", " ", "c", "o", "n", "t", "e", "x", "t", " ", "f", "i", "l", "e", " ", "t", "o", " ">>,
     <<"U", "n", "e", "x", "p", "e", "c", "t", "e", "d", " ", "e", "r", "r", "o", "r", " ", "w", "r", "i", "t", "i", "n", "g", " ", "c", "o", "n", "t", "e", "x", "t", " ", "f", "i", "l", "e", " ", "t", "o", " ">>,
     <<"C", "o", "n", "t", "e", "x", "t", " ", "e", "x", "t", "r", "a", "c", "t", "i", "o", "n", " ", "f", "a", "i", "l", "e", "d", ":", " ">>,
     <<"F", "a", "i", "l", "e", "d", " ", "t", "o", " ", "r", "e", "a", "d", " ", "c", "o", "n", "t", "e", "x", "t", " ", "f", "i", "l", "e", ":", " ">>,
     AuthFailedMsg, RateLimitMsg, ContentBlockedMsg, ModelUnavailableMsg,
     NetworkTimeoutMsg, <<"A", "I", " ", "s", "e", "r", "v", "i", "c", "e", " ", "e", "r", "r", "o", "r", ":", " ">>}

\* the messages of the exceptions the engine and mkdir raise
RawMessages == EngineErrors \cup {ex.msg : ex \in MkdirErrors}

\* C15: every failure raised out of get_context, get_context_for_gemini or
\* ask_gemini_question carries a prefix that names the stage; a failure of
\* the engine in a direct get_context call and a failure of mkdir in a direct
\* get_context_for_gemini call never reach the caller as the raw exception.
C15_EveryFailureWrapped ==
    \A c \in Calls : Failed(c) =>
        /\ \E p \in StagePrefixes : StartsWith(outcome[c].msg, p)
        /\ outcome[c].msg \notin RawMessages

\* call c failed because get_context failed inside get_context_for_gemini
GetContextFailedInGcfg(c) ==
    /\ Failed(c)
    /\ op[c] # "get_context"
    /\ events[c] # <<>>
    /\ Last(events[c]) = "engine"

\* C16: a failure X of get_context inside get_context_for_gemini is surfaced
\* as "Failed to generate codebase context: X" and no artifact directory or
\* file is created for the call; through ask_gemini_question it is surfaced
\* as "Context extraction failed: Failed to generate codebase context: X".
C16_GetContextFailurePrefixed ==
    /\ \A c \in Calls : GetContextFailedInGcfg(c) =>
          LET X == frame[c].engine_error.val
          IN  /\ frame[c].engine_error.some
              /\ X \in EngineErrors
              /\ outcome[c].msg =
                    IF IsAsk(c)
                    THEN <<"C", "o", "n", "t", "e", "x", "t", " ", "e", "x", "t", "r", "a", "c", "t", "i", "o", "n", " ", "f", "a", "i", "l", "e", "d", ":", " ">>
                            \o <<"F", "a", "i", "l", "e", "d", " ", "t", "o", " ", "g", "e", "n", "e", "r", "a", "t", "e", " ", "c", "o", "d", "e", "b", "a", "s", "e", " ", "c", "o", "n", "t", "e", "x", "t", ":", " ">> \o X
                    ELSE <<"F", "a", "i", "l", "e", "d", " ", "t", "o", " ", "g", "e", "n", "e", "r", "a", "t", "e", " ", "c", "o", "d", "e", "b", "a", "s", "e", " ", "c", "o", "n", "t", "e", "x", "t", ":", " ">> \o X
              /\ Range(events[c]) \cap {"mkdir", "write_text"} = {}
              /\ frame[c].output_file = <<>>
    /\ uuids = 0 => (fs = <<>> /\ dirs = {TempDir})

\* the engine fails in the first call that reaches it, inside ask_gemini_question
C16_Witness ==
    \E c \in Calls : GetContextFailedInGcfg(c) /\ IsAsk(c) /\ uuids = 0

\* how many times call c has made the call named tag
Count(c, tag) == Cardinality({i \in 1..Len(events[c]) : events[c][i] = tag})

\* C17: nothing is retried: within one call of any operation the external
\* engine is invoked at most once, the artifact write is attempted at most
\* once and the hosted model is invoked at most once, whether the call ends
\* in success or in failure.
C17_NothingRetried ==
    \A c \in Calls :
        /\ Count(c, "engine") <= 1
        /\ Count(c, "write_text") <= 1
        /\ Count(c, "generate_content") <= 1
        /\ pc[c] \in {"returned", "raised"} =>
              /\ op[c] = "get_context" => Count(c, "engine") = 1
              /\ (op[c] = "get_context_for_gemini" /\ pc[c] = "returned") =>
                    Count(c, "engine") = 1 /\ Count(c, "write_text") = 1
              /\ (IsAsk(c) /\ pc[c] = "returned") =>
                    /\ Count(c, "engine") = 1
                    /\ Count(c, "write_text") = 1
                    /\ Count(c, "generate_content") = 1

\* a call ends in a rate-limit failure after one engine call, one write and
\* one hosted-model call
C17_Witness ==
    \E c \in Calls :
        /\ IsAsk(c) /\ Failed(c)
        /\ outcome[c].msg = RateLimitMsg
        /\ Count(c, "engine") = 1
        /\ Count(c, "write_text") = 1
        /\ Count(c, "generate_content") = 1

\* call c is an ask_gemini_question call that has passed stages 1 and 2 and
\* has begun stage 3
PassedStage2(c) ==
    /\ IsAsk(c)
    /\ pc[c] \in {"gcfg_get_context", "gc_generate", "gcfg_mkdir", "gcfg_write",
                  "ask_exists", "ask_read", "ask_query", "returned"}
       \/ (pc[c] = "raised" /\ Len(events[c]) > 2)

\* call c is an ask_gemini_question call that has passed stage 3
PassedStage3(c) ==
    /\ IsAsk(c)
    /\ pc[c] \in {"ask_exists", "ask_read", "ask_query", "returned"}
       \/ (pc[c] = "raised" /\ "exists" \in Range(events[c]))

\* call c passes stage 3 in this step
PassesStage3(c) == IsAsk(c) /\ pc[c] = "gcfg_write" /\ pc'[c] = "ask_exists"

KeyRead(c) == IsAsk(c) /\ "getenv" \in Range(events[c])

\* C19: the credential is read from the environment in every
\* ask_gemini_question call and never kept: when GEMINI_API_KEY was set,
\* replaced or removed since an earlier call, the later call validates the
\* value the environment holds during that call and hands that value to the
\* hosted-model client.
C19_CredentialReadFresh ==
    \A c \in Calls : KeyRead(c) =>
        /\ frame[c].api_key = environ
        /\ KeyMissing <=> (Failed(c) /\ outcome[c].msg = MissingKeyMsg)
        /\ "generate_content" \in Range(events[c]) =>
              frame[c].request.api_key = environ

\* the credential was replaced after a call that read it, and the next call
\* has called the hosted model
C19_Witness ==
    \E c \in Calls :
        /\ KeyRead(c)
        /\ "generate_content" \in Range(events[c])
        /\ lastKey.read /\ lastKey.value.some /\ lastKey.value.val # <<>>
        /\ lastKey.value # environ

\* this step is a step of one of the operations
OperationStep == pc' # pc

ScanParameters ==
    {"path", "include_patterns", "exclude_patterns", "include_priority",
     "line_numbers", "absolute_paths", "full_directory_tree", "code_blocks",
     "follow_symlinks", "include_hidden", "template", "encoding"}

\* C21: the twelve scan parameters given to ask_gemini_question reach
\* get_context_for_gemini unchanged, those given to get_context_for_gemini
\* reach get_context unchanged, and neither the question nor the model name
\* is among what is forwarded.
C21_ScanParametersForwarded ==
    \A c \in Calls :
        /\ (IsAsk(c) /\ "get_context_for_gemini" \in Range(events[c])) =>
              /\ frame[c].gcfg_scan = args[c].scan
              /\ DOMAIN frame[c].gcfg_scan = ScanParameters
        /\ op[c] = "get_context_for_gemini" => frame[c].gcfg_scan = args[c].scan
        /\ "get_context" \in Range(events[c]) =>
              /\ frame[c].gc_scan = frame[c].gcfg_scan
              /\ \A f \in ScanParameters : frame[c].gc_scan[f] = args[c].scan[f]
              /\ DOMAIN frame[c].gc_scan = ScanParameters
              /\ {"question", "model"} \cap DOMAIN frame[c].gc_scan = {}

\* the parameters of test_parameter_forwarding have reached get_context
\* through both layers
C21_Witness ==
    \E c \in Calls :
        /\ IsAsk(c)
        /\ "engine" \in Range(events[c])
        /\ args[c].scan = CustomScan
        /\ frame[c].gc_scan = CustomScan

\* call c has called the hosted model
ModelCalled(c) == IsAsk(c) /\ "generate_content" \in Range(events[c])

\* C22: in stage 5 the hosted model is called with the requested model name,
\* the credential read in stage 2, temperature 0.1 (1 tenth) and
\* max_output_tokens 30000, and a prompt that is the artifact text, then
\* "\n\nQuestion: ", then the question, also when the artifact text is empty.
C22_HostedModelRequest ==
    \A c \in Calls : ModelCalled(c) =>
        /\ frame[c].request.model = args[c].model
        /\ frame[c].request.api_key = frame[c].api_key
        /\ frame[c].api_key.some /\ frame[c].api_key.val # <<>>
        /\ frame[c].request.temperature = 1
        /\ frame[c].request.max_output_tokens = 30000
        /\ frame[c].context_content = ReadBack(frame[c].context_file_path)
        /\ frame[c].request.contents =
              frame[c].context_content \o <<"\n", "\n">> \o <<"Q", "u", "e", "s", "t", "i", "o", "n", ":", " ">>
                  \o args[c].question

\* the hosted model was called with the text of an empty artifact
C22_Witness ==
    \E c \in Calls :
        /\ ModelCalled(c)
        /\ frame[c].context_content = <<>>
        /\ args[c].question # <<>>

\* the number of whitespace-separated words of s, counted by their last
\* characters
WordCount(s) ==
    Cardinality({i \in 1..Len(s) :
                    ~IsSpace(s[i]) /\ (i = Len(s) \/ IsSpace(s[i + 1]))})

\* C23: every successful ask_gemini_question returns a record with exactly
\* the fields answer, context_file, token_count and model_used: answer is the
\* response's text when it has one and else the string form of the response,
\* context_file is the path get_context_for_gemini returned in this call,
\* model_used is the requested model, and token_count is the number of
\* whitespace-separated words of the full prompt and is greater than 0.
C23_ResultRecord ==
    \A c \in Calls : (IsAsk(c) /\ pc[c] = "returned") =>
        LET result == outcome[c].value
        IN  /\ outcome[c].kind = "return"
            /\ DOMAIN result = {"answer", "context_file", "token_count", "model_used"}
            /\ frame[c].response \in Responses
            /\ result.answer = IF frame[c].response.has_text
                                THEN frame[c].response.text
                                ELSE frame[c].response.str
            /\ result.context_file = frame[c].output_file
            /\ result.context_file \in DOMAIN written
            /\ result.model_used = args[c].model
            /\ result.token_count = WordCount(frame[c].request.contents)
            /\ result.token_count > 0

\* a response without a text field was returned for an empty artifact and
\* an empty question
C23_Witness ==
    \E c \in Calls :
        /\ IsAsk(c) /\ pc[c] = "returned"
        /\ ~frame[c].response.has_text
        /\ frame[c].context_content = <<>>
        /\ args[c].question = <<>>
        /\ outcome[c].value.token_count = 1

\* call c is in the call to the external engine or to the hosted model
AtExternalCall(c) == pc[c] \in {"gc_generate", "ask_query"}

\* call d is the next call waiting to be started
NextToStart(d) == pc[d] = "idle" /\ \A e \in Calls : e < d => pc[e] # "idle"

\* C24: the external engine call and the hosted-model call are suspension
\* points: while a call is waiting on the engine or on the hosted model,
\* another call to the same server process can take steps.
C24_ExternalCallsSuspend ==
    \A c, d \in Calls :
        (c # d /\ server[c] = server[d] /\ AtExternalCall(c) /\ NextToStart(d))
            => ENABLED Start(d)

\* the function whose statement a label names
InAsk(label) ==
    label \in {"ask_validate_model", "ask_validate_api_key", "ask_extract_context",
               "ask_exists", "ask_read", "ask_query"}

InGcfg(label) == label \in {"gcfg_get_context", "gcfg_mkdir", "gcfg_write"}

InGetContext(label) == label = "gc_generate"

\* the calls that call c makes in this step
CallsMade(c) ==
    IF Len(events'[c]) > Len(events[c])
    THEN {events'[c][i] : i \in (Len(events[c]) + 1)..Len(events'[c])}
    ELSE {}

\* C25: control flow is layered: ask_gemini_question calls only
\* get_context_for_gemini, get_context_for_gemini calls only get_context,
\* get_context calls only the external engine, no operation invokes one
\* above it, and only ask_gemini_question calls the hosted model.
C25_Layered ==
    [][\A c \in Calls :
          /\ InAsk(pc[c]) =>
                /\ CallsMade(c) \subseteq
                      {"validate_model", "getenv", "get_context_for_gemini",
                       "exists", "read_text", "Client", "generate_content"}
                /\ ~InGetContext(pc'[c])
                /\ InGcfg(pc'[c]) => pc'[c] = "gcfg_get_context"
                /\ op[c] = "ask_gemini_question"
          /\ InGcfg(pc[c]) =>
                /\ CallsMade(c) \subseteq {"get_context", "mkdir", "write_text"}
                /\ pc'[c] # "ask_validate_model"
                /\ InAsk(pc'[c]) => (pc[c] = "gcfg_write" /\ pc'[c] = "ask_exists")
                /\ op[c] # "get_context"
          /\ InGetContext(pc[c]) =>
                /\ CallsMade(c) \subseteq {"engine"}
                /\ pc'[c] \notin {"ask_validate_model", "gcfg_get_context"}
                /\ InGcfg(pc'[c]) => (op[c] # "get_context" /\ pc'[c] = "gcfg_mkdir")
                /\ ~InAsk(pc'[c])
          /\ pc[c] = "idle" => CallsMade(c) = {}]_vars

\* ask_gemini_question has gone down through both layers to the engine and
\* come back up to the hosted model
C25_Witness ==
    \E c \in Calls :
        /\ IsAsk(c)
        /\ events[c] = StageOrder

(***************************************************************************)
(* C26: no state is kept between calls                                     *)
(***************************************************************************)
RECURSIVE WithoutPath(_, _)
\* the text s with every occurrence of path cut out
WithoutPath(s, path) ==
    IF path = <<>> \/ ~Contains(s, path) THEN s
    ELSE LET i == CHOOSE k \in 1..(Len(s) - Len(path) + 1) :
                      SubSeq(s, k, k + Len(path) - 1) = path
         IN  SubSeq(s, 1, i - 1) \o WithoutPath(SubSeq(s, i + Len(path), Len(s)), path)

\* what a call received, with the artifact filename cut out of the message of
\* the file system
Received(consumed, path) ==
    [consumed EXCEPT !.read_error =
        IF @.some THEN Some(WithoutPath(@.val, path)) ELSE @]

\* call c has terminated and received what the last call delivered had received
Replays(c) ==
    /\ lastCall.made
    /\ pc[c] \in {"returned", "raised"}
    /\ Received(Consumed(c), frame[c].output_file)
         = Received(lastCall.consumed, lastCall.output_file)

\* the fields of a result other than the artifact filename
ResultFields(o, value) ==
    IF o = "ask_gemini_question"
    THEN [answer |-> value.answer, token_count |-> value.token_count,
          model_used |-> value.model_used]
    ELSE IF o = "get_context_for_gemini" THEN <<>>
    ELSE value

SameResult(c) ==
    /\ outcome[c].kind = lastCall.outcome.kind
    /\ outcome[c].kind = "return" =>
          ResultFields(op[c], outcome[c].value)
            = ResultFields(op[c], lastCall.outcome.value)

NoPatterns(c) ==
    /\ frame[c].gc_scan.include_patterns = <<>>
    /\ frame[c].gc_scan.exclude_patterns = <<>>

\* call c has called the external engine
EngineCalled(c) == InList("engine", events[c])

\* C27: a get_context whose include and exclude patterns are both empty fails
\* only when the external engine raises, with the engine's message; when the
\* engine returns, get_context returns the record of prompt, directory and
\* token_count that the engine produced, whether or not the prompt is empty.
C27_NoPatternsNeeded ==
    \A c \in Calls :
        (NoPatterns(c) /\ EngineCalled(c)) =>
            IF frame[c].engine_error.some
            THEN op[c] = "get_context" =>
                    Failed(c) /\ outcome[c].msg = frame[c].engine_error.val
            ELSE /\ DOMAIN frame[c].context_result = {"prompt", "directory", "token_count"}
                 /\ \E r \in EngineResults :
                        /\ frame[c].context_result.prompt = r.prompt
                        /\ frame[c].context_result.directory = r.directory
                        /\ frame[c].context_result.token_count = r.token_count
                 /\ op[c] = "get_context" =>
                        /\ pc[c] = "returned"
                        /\ outcome[c].kind = "return"
                        /\ outcome[c].value = frame[c].context_result
                 /\ op[c] # "get_context" =>
                        ~(pc[c] = "raised" /\ Last(events[c]) = "engine")

C27_Witness ==
    \E c \in Calls :
        /\ op[c] = "get_context"
        /\ NoPatterns(c)
        /\ pc[c] = "returned"
        /\ outcome[c].value.prompt = <<>>
        /\ DOMAIN outcome[c].value = {"prompt", "directory", "token_count"}

(***************************************************************************)
(* C28: a failure of stage 1 or 2 changes nothing                          *)
(***************************************************************************)
\* call c is in stage 1 or stage 2 of ask_gemini_question
InValidation(c) == pc[c] \in {"ask_validate_model", "ask_validate_api_key"}

\* call c failed at stage 1 or stage 2
ValidationFailed(c) ==
    /\ IsAsk(c)
    /\ Failed(c)
    /\ Last(events[c]) \in {"validate_model", "getenv"}

\* C28: while ask_gemini_question is in stage 1 or 2 no directory or file is
\* created, changed or removed and no uuid is drawn; a call that failed in
\* one of these stages has made no call but the model check and the lookup
\* of the credential: none to the engine, the file system or the hosted model.
C28_ValidationFailureNoEffect ==
    /\ [](\A c \in Calls :
            ValidationFailed(c) =>
                /\ events[c] \in {<<"validate_model">>, <<"validate_model", "getenv">>}
                /\ frame[c].output_file = <<>>
                /\ frame[c].context_result = NoResult
                /\ frame[c].request = NoRequest)
    /\ [][\A c \in Calls :
            InValidation(c) => UNCHANGED <<fs, dirs, uuids, written>>]_vars

C28_Witness ==
    \E c \in Calls :
        /\ ValidationFailed(c)
        /\ events[c] = <<"validate_model", "getenv">>
        /\ fs # <<>>
        /\ temp_dir \in dirs

(***************************************************************************)
(* C29: only failures of stage 5 are classified                            *)
(***************************************************************************)
\* the messages of the five specific categories
CategoryMessages ==
    {AuthFailedMsg, RateLimitMsg, ContentBlockedMsg, ModelUnavailableMsg,
     NetworkTimeoutMsg}

\* the surfaced message names one of the five specific categories
Classified(msg) ==
    \/ msg \in CategoryMessages
    \/ \E k \in 1..5 : StartsWith(msg, CategoryPhrase[k])

\* call c failed while checking for or reading the artifact
Stage4Failed(c) ==
    /\ IsAsk(c) /\ Failed(c)
    /\ events[c] # <<>>
    /\ Last(events[c]) \in {"exists", "read_text"}

\* C29: a failure of stage 3 is surfaced as "Context extraction failed: " and a
\* failure of stage 4 as "Failed to read context file: ", each followed by the
\* message of the failure, whatever keywords that message contains; a message
\* of one of the five specific categories is surfaced only by a failure of
\* stage 5, the construction of the client or the hosted-model call.
C29_ClassifiedOnlyInStage5 ==
    \A c \in Calls :
        /\ Stage3Failed(c) =>
              /\ outcome[c].msg = <<"C", "o", "n", "t", "e", "x", "t", " ", "e", "x", "t", "r", "a", "c", "t", "i", "o", "n", " ", "f", "a", "i", "l", "e", "d", ":", " ">> \o frame[c].extract_error.val
              /\ ~Classified(outcome[c].msg)
        /\ Stage4Failed(c) =>
              /\ outcome[c].msg = <<"F", "a", "i", "l", "e", "d", " ", "t", "o", " ", "r", "e", "a", "d", " ", "c", "o", "n", "t", "e", "x", "t", " ", "f", "i", "l", "e", ":", " ">> \o frame[c].read_error.val
              /\ ~Classified(outcome[c].msg)
        /\ (IsAsk(c) /\ Failed(c) /\ Classified(outcome[c].msg)) =>
              /\ Last(events[c]) \in {"Client", "generate_content"}
              /\ frame[c].upstream.some

C29_Witness ==
    \E c \in Calls :
        /\ Stage3Failed(c)
        /\ HostedModelFailure(frame[c].extract_error.val) = AuthFailedMsg
        /\ Contains(lower(frame[c].extract_error.val), <<"q", "u", "o", "t", "a">>)
        /\ Contains(lower(frame[c].extract_error.val), <<"t", "i", "m", "e", "o", "u", "t">>)

(***************************************************************************)
(* C30: termination, and no timeout                                        *)
(***************************************************************************)
\* call c has a result or a failure that is not yet delivered
Terminated(c) == pc[c] \in {"returned", "raised"}

\* call c is running
Running(c) == Active(c) /\ ~Terminated(c)

\* the exception of an external call that call c has caught or passed on
HasCause(c) ==
    \/ frame[c].engine_error.some
    \/ frame[c].mkdir_error.some
    \/ frame[c].write_error # NoException
    \/ frame[c].read_error.some
    \/ frame[c].upstream.some

\* the one outcome of a terminated call: a result, or a failure that is a
\* rejection of stage 1 or 2 or comes from an exception of an external call
OneOutcome(c) ==
    /\ pc[c] = "returned" =>
          outcome[c].kind = "return" /\ outcome[c].msg = <<>> /\ ~HasCause(c)
    /\ pc[c] = "raised" =>
          /\ outcome[c].kind = "raise" /\ outcome[c].value = <<>>
          /\ outcome[c].msg # <<>>
          /\ \/ IsAsk(c) /\ Last(events[c]) \in {"validate_model", "getenv"}
             \/ HasCause(c)
    /\ Running(c) => outcome[c] = NoOutcome

\* the outcome of a terminated call stays as it is until it is delivered
OutcomeKept(c) ==
    Terminated(c) =>
        \/ pc'[c] = pc[c] /\ outcome'[c] = outcome[c]
        \/ pc'[c] = "done"

\* C30: when every external call returns or raises, every call that has
\* started terminates, with one outcome: a result, or one failure, which is a
\* rejection of the request or the exception of an external call; the server
\* produces no failure of its own for a call that waits, and the outcome of a
\* call does not change once it has one.
C30_Terminates ==
    /\ \A c \in Calls : Running(c) ~> Terminated(c)
    /\ [](\A c \in Calls : OneOutcome(c))
    /\ [][\A c \in Calls : OutcomeKept(c)]_vars

C30_Witness ==
    \E c \in Calls :
        /\ IsAsk(c)
        /\ pc[c] = "returned"
        /\ events[c] = StageOrder
        /\ OneOutcome(c)

====
